---- MODULE Spec2Model ----
(***************************************************************************)
(* TOML -> ryml::Tree materialization (src/src/c4/yml/parse_toml.cpp).     *)
(*                                                                         *)
(* Texts are sequences of one-character strings.  A csubstr is a span:     *)
(* a region ("null" for str == nullptr, "arena" for the tree's arena,      *)
(* "src" for memory owned by the toml++ value hierarchy, "ext" for memory  *)
(* owned by the caller), an offset and a length; a span outside the arena  *)
(* carries the bytes it points at in lit.                                  *)
(***************************************************************************)
EXTENDS Integers, Sequences, FiniteSets, TLC

VARIABLES tree, last, passes, cb_calls

vars == <<tree, last, passes, cb_calls>>

(* ---- bounds ---------------------------------------------------------- *)

\* the caller appends a child only to a tree of fewer nodes than this, and
\* calls convert_toml_value directly only on a tree of at most this many
MaxNodes == 3

\* largest number of error callback invocations followed
MaxErrors == 1

(* ---- source values (toml::node) ----------------------------------------- *)

\* a toml::node: kind, string payload s, numeric payload n, members items
\* (and, for a table, their keys)
Value(kind, s, n, keys, items) ==
    [kind |-> kind, s |-> s, n |-> n, keys |-> keys, items |-> items]

VStr(s) == Value("string", s, <<>>, <<>>, <<>>)
\* an int64_t: neg is 1 for a negative value, mag is the decimal digits of
\* its magnitude (of zero: none)
VInt(neg, mag) == Value("integer", <<>>, <<neg, mag>>, <<>>, <<>>)
VBool(b) == Value("boolean", <<>>, <<b>>, <<>>, <<>>)
\* a double: n[1] is 1 when the exponent field is all ones and 0 for a
\* finite value, n[2] is the sign bit.  A finite double is the decimal
\* literal it is the nearest double to: the decimal digits of the mantissa
\* (of zero: none) and the decimal exponent.  With the exponent field all
\* ones, n[3] is the fraction field: empty (all zero) for an infinity, not
\* empty for a NaN
VFlt(neg, mant, exp) == Value("floating_point", <<>>, <<0, neg, mant, exp>>, <<>>, <<>>)
VInf(neg) == Value("floating_point", <<>>, <<1, neg, <<>>, 0>>, <<>>, <<>>)
VNaN(neg) == Value("floating_point", <<>>, <<1, neg, <<1>>, 0>>, <<>>, <<>>)
\* std::isinf(d), std::isnan(d)
isinf(d) == d.n[1] = 1 /\ d.n[3] = <<>>
isnan(d) == d.n[1] = 1 /\ d.n[3] # <<>>
VDate(y, m, d) == Value("date", <<>>, <<y, m, d>>, <<>>, <<>>)
VTime(h, mi, sec, ns) == Value("time", <<>>, <<h, mi, sec, ns>>, <<>>, <<>>)
\* off: 0 = local date-time (no offset), 1 = offset of offmin minutes
VDateTime(y, m, d, h, mi, sec, ns, off, offmin) ==
    Value("date_time", <<>>, <<y, m, d, h, mi, sec, ns, off, offmin>>, <<>>, <<>>)
VTbl(keys, items) == Value("table", <<>>, <<>>, keys, items)
VArr(items) == Value("array", <<>>, <<>>, <<>>, items)

is_table(v) == v.kind = "table"
is_array(v) == v.kind = "array"
is_string(v) == v.kind = "string"
is_integer(v) == v.kind = "integer"
is_floating_point(v) == v.kind = "floating_point"
is_boolean(v) == v.kind = "boolean"
is_date(v) == v.kind = "date"
is_time(v) == v.kind = "time"
is_date_time(v) == v.kind = "date_time"

(* ---- operator<< of the scalar types ------------------------------------- *)

Digit(d) == <<"0", "1", "2", "3", "4", "5", "6", "7", "8", "9">>[d + 1]

RECURSIVE NatToText(_)
NatToText(n) == IF n < 10 THEN <<Digit(n)>>
                ELSE NatToText(n \div 10) \o <<Digit(n % 10)>>

\* std::ostream << int64_t
IntToText(neg, mag) ==
    IF mag = <<>> THEN <<"0">>
    ELSE (IF neg = 1 THEN <<"-">> ELSE <<>>) \o [i \in 1..Len(mag) |-> Digit(mag[i])]

RECURSIVE Zeros(_)
Zeros(k) == IF k <= 0 THEN <<>> ELSE <<"0">> \o Zeros(k - 1)

\* toml++ print_integer_leftpad_zeros
LeftPad(n, w) == LET t == NatToText(n) IN Zeros(w - Len(t)) \o t

RECURSIVE Pow10(_)
Pow10(k) == IF k <= 0 THEN 1 ELSE 10 * Pow10(k - 1)

(* numbers of any size are the sequences of their decimal digits, zero is << >> *)

\* digits without leading zeros
BigTrim(a) ==
    IF \A i \in 1..Len(a) : a[i] = 0 THEN <<>>
    ELSE SubSeq(a, CHOOSE i \in 1..Len(a) : a[i] # 0 /\ \A j \in 1..(i - 1) : a[j] = 0, Len(a))

BigTimes2(a) ==
    (IF a # <<>> /\ a[1] >= 5 THEN <<1>> ELSE <<>>)
    \o [i \in 1..Len(a) |-> (2 * a[i] + (IF i < Len(a) /\ a[i + 1] >= 5 THEN 1 ELSE 0)) % 10]

BigHalf(a) ==
    BigTrim([i \in 1..Len(a) |-> (a[i] + (IF i > 1 /\ a[i - 1] % 2 = 1 THEN 10 ELSE 0)) \div 2])

\* -1, 0, 1 as a is less than, equal to, greater than b
BigCmp(a, b) ==
    IF Len(a) # Len(b) THEN (IF Len(a) < Len(b) THEN -1 ELSE 1)
    ELSE IF a = b THEN 0
    ELSE LET i == CHOOSE k \in 1..Len(a) : a[k] # b[k] /\ \A j \in 1..(k - 1) : a[j] = b[j]
         IN IF a[i] < b[i] THEN -1 ELSE 1

\* a + 1
BigInc(a) ==
    IF \A i \in 1..Len(a) : a[i] = 9 THEN <<1>> \o [i \in 1..Len(a) |-> 0]
    ELSE LET k == CHOOSE i \in 1..Len(a) : a[i] # 9 /\ \A j \in (i + 1)..Len(a) : a[j] = 9
         IN [i \in 1..Len(a) |-> IF i < k THEN a[i] ELSE IF i = k THEN a[i] + 1 ELSE 0]

\* a * 10^k, and a when k is not positive
BigTimesPow10(a, k) == IF k <= 0 THEN a ELSE a \o [i \in 1..k |-> 0]

\* a \div 10^k and a % 10^k
BigQuot(a, k) == IF Len(a) <= k THEN <<>> ELSE SubSeq(a, 1, Len(a) - k)

BigRem(a, k) == IF Len(a) <= k THEN a ELSE BigTrim(SubSeq(a, Len(a) - k + 1, Len(a)))

\* a * 2^j
RECURSIVE BigTimesPow2(_, _)
BigTimesPow2(a, j) ==
    IF j = 0 THEN a
    ELSE IF j = 1 THEN BigTimes2(a)
    ELSE CHOOSE r \in {BigTimesPow2(x, j - j \div 2) : x \in {BigTimesPow2(a, j \div 2)}} : TRUE

\* a + b
BigAdd(a, b) ==
    LET n == 1 + (IF Len(a) > Len(b) THEN Len(a) ELSE Len(b))
        at(x, i) == IF i > n - Len(x) THEN x[i - (n - Len(x))] ELSE 0
        sum(i) == at(a, i) + at(b, i)
        carry(i) == \E j \in (i + 1)..n :
                        sum(j) >= 10 /\ \A m \in (i + 1)..(j - 1) : sum(m) = 9
    IN BigTrim([i \in 1..n |-> (sum(i) + (IF carry(i) THEN 1 ELSE 0)) % 10])

\* a number being scaled by powers of two: the digits q it has now, the bit
\* last shifted out, whether a bit shifted out before that was set, and the
\* power p, the number having been q * 2^p before the bits were dropped;
\* here j more halvings
RECURSIVE HalveTimes(_, _)
HalveTimes(s, j) ==
    IF j = 0 THEN s
    ELSE IF j = 1
    THEN [q |-> BigHalf(s.q), half |-> IF s.q = <<>> THEN 0 ELSE s.q[Len(s.q)] % 2,
          sticky |-> s.half = 1 \/ s.sticky, p |-> s.p + 1]
    ELSE CHOOSE r \in {HalveTimes(x, j - j \div 2) : x \in {HalveTimes(s, j \div 2)}} : TRUE

\* s halved until s.q \div 10^k has at most 53 bits, a double having a
\* significand of 53 bits (by 2^32 while that cannot overshoot)
RECURSIVE ScaleDown(_, _)
ScaleDown(s, k) ==
    LET TwoTo53 == <<9, 0, 0, 7, 1, 9, 9, 2, 5, 4, 7, 4, 0, 9, 9, 2>>
    IN IF BigCmp(BigQuot(s.q, k), TwoTo53) < 0 THEN s
       ELSE CHOOSE r \in {ScaleDown(x, k)
                          : x \in {HalveTimes(s, IF Len(s.q) - k >= 27 THEN 32 ELSE 1)}} : TRUE

\* s doubled until s.q \div 10^k has 53 bits (by 2^64 and by 2^10 while
\* that cannot overshoot), or until p is -1074: the doubles below 2^-1022
\* are the multiples of 2^-1074, of fewer bits
RECURSIVE ScaleUp(_, _)
ScaleUp(s, k) ==
    LET TwoTo42 == <<4, 3, 9, 8, 0, 4, 6, 5, 1, 1, 1, 0, 4>>
        TwoTo52 == <<4, 5, 0, 3, 5, 9, 9, 6, 2, 7, 3, 7, 0, 4, 9, 6>>
        left == s.p + 1074
        times(j) == [q |-> BigTimesPow2(s.q, j), half |-> 0, sticky |-> FALSE, p |-> s.p - j]
    IN IF left <= 0 \/ BigCmp(BigQuot(s.q, k), TwoTo52) >= 0 THEN s
       ELSE CHOOSE r \in {ScaleUp(x, k)
                          : x \in {IF left >= 64 /\ Len(s.q) + 20 <= k THEN times(64)
                                    ELSE IF left >= 10 /\ BigCmp(BigQuot(s.q, k), TwoTo42) < 0
                                    THEN times(10)
                                    ELSE times(1)}} : TRUE

\* the double nearest to mant * 10^exp, which is what the parser stores for
\* the literal (round to nearest, ties to even): the digits m and the power
\* p of the double m * 2^p (m is << >> when the literal is nearest to
\* zero), and the side of the literal it lies on (-1 below, 0 on it, 1
\* above).  For values below 2^1024.
NearestDouble(mant, exp) ==
    LET k == IF exp < 0 THEN -exp ELSE 0
        start == [q |-> BigTimesPow10(mant, exp), half |-> 0, sticky |-> FALSE, p |-> 0]
        \* s.q \div 10^k, and one more when what is cut off (the remainder
        \* and the bits shifted out) is more than a half, or is a half and
        \* the quotient is odd
        round(s) ==
            CHOOSE r \in
                {CHOOSE u \in
                     {[m |-> IF up THEN BigInc(q) ELSE q,
                       p |-> s.p,
                       side |-> IF up THEN 1
                                ELSE IF rem = <<>> /\ s.half = 0 /\ ~s.sticky THEN 0
                                ELSE -1]
                      : up \in {LET c == BigCmp(BigTimes2(rem), BigTimesPow10(<<1>>, k))
                                    odd == q # <<>> /\ q[Len(q)] % 2 = 1
                                IN \/ c > 0
                                   \/ c = 0 /\ (s.half = 1 \/ s.sticky \/ odd)
                                   \/ k = 0 /\ s.half = 1 /\ (s.sticky \/ odd)}} : TRUE
                 : q \in {BigQuot(s.q, k)}, rem \in {BigRem(s.q, k)}} : TRUE
    IN CHOOSE d \in {round(s)
                     : s \in {IF k = 0 THEN ScaleDown(start, 0)
                               ELSE CHOOSE u \in {ScaleUp(x, k)
                                                  : x \in {ScaleDown(start, k)}} : TRUE}} : TRUE

\* the double of the literal mant * 10^exp rounded to six significant
\* digits (precision() of a default-constructed stream), as <<digits,
\* exponent>>: the first six digits q of the literal, and one more when
\* the double is more than halfway from q to q + 1, or is halfway and q is
\* odd.  Below 10^-307 the double may have fewer than 53 bits and be far
\* from the literal: there the digits are those of the double itself.
RoundSix(mant, exp) ==
    LET nd == Len(mant)
        \* the number ds * 10^x rounded to six digits
        exact(ds, x) ==
            LET n == Len(ds)
                h == SubSeq(ds, 1, 6)
                c == IF ds[7] # 5 THEN (IF ds[7] < 5 THEN -1 ELSE 1)
                     ELSE IF \E i \in 8..n : ds[i] # 0 THEN 1 ELSE 0
            IN IF n <= 6 THEN <<ds, x>>
               ELSE <<IF c > 0 \/ (c = 0 /\ h[6] % 2 = 1) THEN BigInc(h) ELSE h, x + n - 6>>
        \* the double m * 2^p of a negative p, which is 2^-1074 or more, as
        \* <<digits, exponent>>: the whole digits of 10^332 times the
        \* double (nine or more), and a last digit 1 for a fraction cut off
        digits(d) ==
            CHOOSE r \in {IF s.half = 1 \/ s.sticky THEN <<s.q \o <<1>>, -333>>
                          ELSE <<s.q, -332>>
                          : s \in {HalveTimes([q |-> BigTimesPow10(d.m, 332), half |-> 0,
                                               sticky |-> FALSE, p |-> 0], -d.p)}} : TRUE
        \* the literals whose digits are taken from the double
        low == nd > 0 /\ nd + exp <= -307
        q == SubSeq(mant, 1, 6)
        \* halfway from q to q + 1 lies tie * 10^e
        tie == q \o <<5>>
        e == exp + nd - 7
        \* -1, 0, 1 as the literal is less than, equal to, greater than that
        literal == IF mant[7] # 5 THEN (IF mant[7] < 5 THEN -1 ELSE 1)
                   ELSE IF \E i \in 8..nd : mant[i] # 0 THEN 1 ELSE 0
        \* -1, 0, 1 as the double d.m * 2^d.p is less than, equal to,
        \* greater than that
        double(d) ==
            BigCmp(BigTimesPow10(BigTimesPow2(d.m, IF d.p > 0 THEN d.p ELSE 0), -e),
                   BigTimesPow10(BigTimesPow2(tie, IF d.p < 0 THEN -d.p ELSE 0), e))
        \* q, and one more when the double is on side c of halfway
        round(c) == <<IF c > 0 \/ (c = 0 /\ q[6] % 2 = 1) THEN BigInc(q) ELSE q, exp + nd - 6>>
       \* a literal below 10^-324 is nearest to zero
    IN IF low /\ nd + exp < -324 THEN <<<<>>, 0>>
       ELSE IF ~low /\ nd <= 6 THEN <<mant, exp>>
       \* the double differs from the literal by 2^-53 of its value at
       \* most.  A literal of at most 15 digits that is not halfway is
       \* 10^-15 of its value or more from halfway, so the double is on
       \* the same side as the literal; when the literal is halfway, the
       \* double lies where it lies of the literal
       ELSE IF ~low /\ nd <= 15 /\ literal # 0 THEN round(literal)
       ELSE CHOOSE r \in {IF ~low THEN round(IF literal = 0 THEN d.side ELSE double(d))
                          ELSE IF d.m = <<>> THEN <<<<>>, 0>>
                          ELSE CHOOSE u \in {exact(me[1], me[2]) : me \in {digits(d)}} : TRUE
                          : d \in {NearestDouble(mant, exp)}} : TRUE

\* std::ostream << double for a finite value (%g with precision 6)
FiniteToText(neg, mant, exp) ==
    LET \* <<digits, exponent>> without the zeros that end the digits
        strip(me) ==
            LET n == Cardinality({i \in 1..Len(me[1]) : \E j \in i..Len(me[1]) : me[1][j] # 0})
            IN <<SubSeq(me[1], 1, n), me[2] + Len(me[1]) - n>>
        format(me, ds) ==
            LET nd == Len(ds)
                e == me[2]
                X == e + nd - 1
            IN (IF neg = 1 THEN <<"-">> ELSE <<>>)
               \o (IF nd = 0 THEN <<"0">>
                   ELSE IF X < -4 \/ X >= 6
                   THEN <<ds[1]>> \o (IF nd > 1 THEN <<".">> \o SubSeq(ds, 2, nd) ELSE <<>>)
                        \o <<"e", IF X < 0 THEN "-" ELSE "+">>
                        \o LeftPad(IF X < 0 THEN -X ELSE X, 2)
                   ELSE IF e >= 0 THEN ds \o Zeros(e)
                   ELSE IF nd > -e
                   THEN SubSeq(ds, 1, nd + e) \o <<".">> \o SubSeq(ds, nd + e + 1, nd)
                   ELSE <<"0", ".">> \o Zeros(-e - nd) \o ds)
    IN CHOOSE t \in {CHOOSE u \in {CHOOSE w \in {format(me, ds)
                                                  : ds \in {[i \in 1..Len(me[1]) |->
                                                                Digit(me[1][i])]}} : TRUE
                                   : me \in {strip(r)}} : TRUE
                     : r \in {RoundSix(mant, exp)}} : TRUE

\* std::ostream << toml::date
DateToText(y, m, d) == LeftPad(y, 4) \o <<"-">> \o LeftPad(m, 2) \o <<"-">> \o LeftPad(d, 2)

\* the fractional seconds: nine digits without the trailing zeros
FracToText(ns) ==
    LET t == LeftPad(ns, 9)
    IN SubSeq(t, 1, Cardinality({i \in 1..9 : \E j \in i..9 : t[j] # "0"}))

\* std::ostream << toml::time
TimeToText(h, mi, sec, ns) ==
    LeftPad(h, 2) \o <<":">> \o LeftPad(mi, 2) \o <<":">> \o LeftPad(sec, 2)
    \o (IF ns # 0 THEN <<".">> \o FracToText(ns) ELSE <<>>)

\* std::ostream << toml::time_offset
OffsetToText(offmin) ==
    IF offmin = 0 THEN <<"Z">>
    ELSE LET a == IF offmin < 0 THEN -offmin ELSE offmin
         IN <<IF offmin < 0 THEN "-" ELSE "+">>
            \o LeftPad(a \div 60, 2) \o <<":">> \o LeftPad(a % 60, 2)

\* std::ostream << toml::date_time
DateTimeToText(n) ==
    DateToText(n[1], n[2], n[3]) \o <<"T">> \o TimeToText(n[4], n[5], n[6], n[7])
    \o (IF n[8] = 1 THEN OffsetToText(n[9]) ELSE <<>>)

\* ss << value; ss.str(): the text a scalar_to_arena call formats
StreamText(v) ==
    IF is_integer(v) THEN IntToText(v.n[1], v.n[2])
    ELSE IF is_floating_point(v) THEN FiniteToText(v.n[2], v.n[3], v.n[4])
    ELSE IF is_date(v) THEN DateToText(v.n[1], v.n[2], v.n[3])
    ELSE IF is_time(v) THEN TimeToText(v.n[1], v.n[2], v.n[3], v.n[4])
    ELSE IF is_date_time(v) THEN DateTimeToText(v.n)
    ELSE <<>>

(* ---- csubstr, the arena and the nodes of a Tree ------------------------- *)

\* csubstr{}: str == nullptr, len == 0
NullSpan == [reg |-> "null", off |-> 0, len |-> 0, lit |-> <<>>]

\* a span of the tree's arena (offsets survive the arena's relocation)
ArenaSpan(off, len) == [reg |-> "arena", off |-> off, len |-> len, lit |-> <<>>]

\* a span of memory the caller owns, holding text
ExtSpan(text) == [reg |-> "ext", off |-> 0, len |-> Len(text), lit |-> text]

\* a span of memory the toml++ value hierarchy or a local buffer owns
SrcSpan(text) == [reg |-> "src", off |-> 0, len |-> Len(text), lit |-> text]

\* the bytes a span points at
Text(t, sp) == IF sp.reg = "arena" THEN SubSeq(t.arena, sp.off + 1, sp.off + sp.len)
               ELSE sp.lit

\* a byte of the arena that was allocated and not yet written
Uninit == "?"

UninitBytes(k) == [i \in 1..k |-> Uninit]

\* NodeData after _clear(): NOTYPE, no key, no value, no relatives
FreshNode(parent) ==
    [type |-> {}, key |-> NullSpan, val |-> NullSpan, parent |-> parent, children |-> <<>>]

\* the id of no node
NONE == 0

\* one step of a call, as the log of the call records it: the operation, the
\* node it is on, the text and the flag it carries
Event(op, node, txt, flag) ==
    [op |-> op, node |-> node, txt |-> txt, flag |-> flag, sp |-> NullSpan]

\* an event about a span of text
SpanEvent(op, sp, txt, flag) ==
    [op |-> op, node |-> NONE, txt |-> txt, flag |-> flag, sp |-> sp]

Logged(t, ev) == [t EXCEPT !.log = Append(@, ev)]

\* Tree t; t.root_id(): one node of no type, an empty arena
EmptyTree == [nodes |-> <<FreshNode(NONE)>>, arena |-> <<>>, log |-> <<>>]

root_id(t) == 1

has_key(t, node) == "KEY" \in t.nodes[node].type

key(t, node) == t.nodes[node].key

has_children(t, node) == t.nodes[node].children # <<>>

is_map(t, node) == "MAP" \in t.nodes[node].type

is_seq(t, node) == "SEQ" \in t.nodes[node].type

\* Tree::alloc_arena: the arena grows by sz bytes, the span is its new tail
alloc_arena(t, sz) ==
    [tree |-> Logged([t EXCEPT !.arena = @ \o UninitBytes(sz)],
                     SpanEvent("alloc_arena", ArenaSpan(Len(t.arena), sz), <<>>, FALSE)),
     buf |-> ArenaSpan(Len(t.arena), sz)]

\* a slip: the bytes are written at the start of the arena
memcpy_at_start(t, buf, data) ==
    [t EXCEPT !.arena = [i \in 1..Len(@) |-> IF i <= Len(data) THEN data[i] ELSE @[i]]]

\* memcpy(buf.str, data, size) into a span of the arena
memcpy(t, buf, data) ==
    [t EXCEPT !.arena = [i \in 1..Len(@) |->
        IF i > buf.off /\ i <= buf.off + Len(data) THEN data[i - buf.off] ELSE @[i]]]

\* _set_flags replaces the type; the key is set and the value cleared
to_map_key(t, node, k) ==
    Logged([t EXCEPT !.nodes[node].type = {"KEY", "MAP"},
                     !.nodes[node].key = k,
                     !.nodes[node].val = NullSpan],
           Event("to_map", node, <<>>, TRUE))

to_map(t, node) ==
    Logged([t EXCEPT !.nodes[node].type = {"MAP"},
                     !.nodes[node].key = NullSpan,
                     !.nodes[node].val = NullSpan],
           Event("to_map", node, <<>>, FALSE))

to_seq_key(t, node, k) ==
    Logged([t EXCEPT !.nodes[node].type = {"KEY", "SEQ"},
                     !.nodes[node].key = k,
                     !.nodes[node].val = NullSpan],
           Event("to_seq", node, <<>>, TRUE))

to_seq(t, node) ==
    Logged([t EXCEPT !.nodes[node].type = {"SEQ"},
                     !.nodes[node].key = NullSpan,
                     !.nodes[node].val = NullSpan],
           Event("to_seq", node, <<>>, FALSE))

to_keyval(t, node, k, v) ==
    Logged([t EXCEPT !.nodes[node].type = {"KEY", "VAL"},
                     !.nodes[node].key = k,
                     !.nodes[node].val = v],
           Event("to_keyval", node, <<>>, TRUE))

to_val(t, node, v) ==
    Logged([t EXCEPT !.nodes[node].type = {"VAL"},
                     !.nodes[node].key = NullSpan,
                     !.nodes[node].val = v],
           Event("to_val", node, <<>>, FALSE))

add_flags(t, node, f) ==
    Logged([t EXCEPT !.nodes[node].type = @ \cup f],
           Event("_add_flags", node, <<>>, FALSE))

\* Tree::append_child: a new node of no type, last among the parent's children
append_child(t, parent) ==
    LET id == Len(t.nodes) + 1
    IN [tree |-> Logged([t EXCEPT !.nodes = Append([@ EXCEPT ![parent].children = Append(@, id)],
                                                   FreshNode(parent))],
                        Event("append_child", id, <<>>, FALSE)),
        id |-> id]

(* ---- parse_toml.cpp ------------------------------------------------------ *)

\* the one element of a singleton: The({F(x) : x \in {e}}) is F(e) with e
\* evaluated once
The(S) == CHOOSE x \in S : TRUE

\* a slip: the text is not copied, the node is given the memory of the
\* source value or of the local buffer
to_arena_no_copy(tree_, sv) == [tree |-> tree_, str |-> SrcSpan(sv)]

\* a slip: the copy is made, the span returned is the start of the arena
to_arena_first_bytes(tree_, sv) ==
    The({IF s = <<>> THEN [tree |-> tree_, str |-> NullSpan]
         ELSE The({[tree |-> memcpy(a.tree, a.buf, s), str |-> ArenaSpan(0, Len(s))]
                   : a \in {alloc_arena(tree_, Len(s))}})
         : s \in {sv}})

\* Helper to copy a string to the tree's arena and return a csubstr
to_arena(tree_, sv) ==
    The({IF s = <<>> THEN [tree |-> tree_, str |-> NullSpan]
         ELSE The({[tree |-> memcpy(a.tree, a.buf, s), str |-> a.buf]
                   : a \in {alloc_arena(tree_, Len(s))}})
         : s \in {sv}})

\* Helper to convert a scalar value to string
scalar_to_arena(tree_, value) == to_arena(tree_, StreamText(value))

\* a slip: the scalar is assigned without looking for a key
set_scalar_no_key(tree_, node_id, val) == to_val(tree_, node_id, val)

\* if (tree->has_key(node_id)) to_keyval(node_id, key, val) else to_val(node_id, val)
set_scalar(tree_, node_id, val) ==
    IF has_key(tree_, node_id)
    THEN to_keyval(tree_, node_id, key(tree_, node_id), val)
    ELSE to_val(tree_, node_id, val)

\* a slip: the flag is added before the scalar is assigned
convert_string_flag_first(toml_node, tree_, node_id) ==
    The({set_scalar(add_flags(a.tree, node_id, {"VAL_DQUO"}), node_id, a.str)
         : a \in {to_arena(tree_, toml_node.s)}})

\* the string branch: the value verbatim, then the VAL_DQUO flag
convert_string(toml_node, tree_, node_id) ==
    The({add_flags(set_scalar(a.tree, node_id, a.str), node_id, {"VAL_DQUO"})
         : a \in {to_arena(tree_, toml_node.s)}})

\* a slip: the sign of an infinity is not looked at
float_to_arena_unsigned_inf(tree_, d) ==
    IF isinf(d) THEN to_arena(tree_, <<".", "i", "n", "f">>)
    ELSE IF isnan(d) THEN to_arena(tree_, <<".", "n", "a", "n">>)
    ELSE scalar_to_arena(tree_, d)

\* the text of a float: if (std::isinf(d)) d > 0 ? ".inf" : "-.inf",
\* else if (std::isnan(d)) ".nan", else the stream
float_to_arena(tree_, d) ==
    IF isinf(d)
    THEN (IF d.n[2] = 0 THEN to_arena(tree_, <<".", "i", "n", "f">>)
          ELSE to_arena(tree_, <<"-", ".", "i", "n", "f">>))
    ELSE IF isnan(d) THEN to_arena(tree_, <<".", "n", "a", "n">>)
    ELSE scalar_to_arena(tree_, d)

\* bool_val ? to_arena(tree, "true") : to_arena(tree, "false")
bool_to_arena(tree_, b) ==
    IF b.n[1] = 1 THEN to_arena(tree_, <<"t", "r", "u", "e">>)
    ELSE to_arena(tree_, <<"f", "a", "l", "s", "e">>)

RECURSIVE convert_toml_value(_, _, _)
RECURSIVE convert_members(_, _, _, _, _)
RECURSIVE convert_elements(_, _, _, _, _)

\* a slip: the recursive call is made on the first child of the table, not
\* on the child just appended
convert_member_first_child(k, value, tree_, node_id) ==
    The({The({The({convert_toml_value(value, kv, kv.nodes[node_id].children[1])
                   : kv \in {to_keyval(ka.tree, c.id, ka.str, NullSpan)}})
              : ka \in {to_arena(c.tree, k)}})
         : c \in {append_child(tree_, node_id)}})

\* a slip: the child is given no key before the recursive call
convert_member_no_keyval(k, value, tree_, node_id) ==
    The({convert_toml_value(value, c.tree, c.id) : c \in {append_child(tree_, node_id)}})

\* one member of a table: append_child, to_keyval with the key copied to
\* the arena and an empty value, then the recursive call
convert_member(k, value, tree_, node_id) ==
    The({The({The({convert_toml_value(value, kv, c.id)
                   : kv \in {to_keyval(ka.tree, c.id, ka.str, NullSpan)}})
              : ka \in {to_arena(c.tree, k)}})
         : c \in {append_child(tree_, node_id)}})

\* for (const auto& [key, value] : tbl), members i to j in their order:
\* the first half of them, then the rest
convert_members(tbl, tree_, node_id, i, j) ==
    IF i > j THEN tree_
    ELSE IF i = j THEN convert_member(tbl.keys[i], tbl.items[i], tree_, node_id)
    ELSE The({convert_members(tbl, t, node_id, (i + j) \div 2 + 1, j)
              : t \in {convert_members(tbl, tree_, node_id, i, (i + j) \div 2)}})

\* a slip: the recursive call is made on the array's node, not on the child
convert_element_on_parent(elem, tree_, node_id) ==
    The({convert_toml_value(elem, c.tree, node_id) : c \in {append_child(tree_, node_id)}})

\* one element of an array: append_child, then the recursive call
convert_element(elem, tree_, node_id) ==
    The({convert_toml_value(elem, c.tree, c.id) : c \in {append_child(tree_, node_id)}})

\* for (const auto& elem : arr), elements i to j in their order: the
\* first half of them, then the rest
convert_elements(arr, tree_, node_id, i, j) ==
    IF i > j THEN tree_
    ELSE IF i = j THEN convert_element(arr.items[i], tree_, node_id)
    ELSE The({convert_elements(arr, t, node_id, (i + j) \div 2 + 1, j)
              : t \in {convert_elements(arr, tree_, node_id, i, (i + j) \div 2)}})

\* the table branch: to_map, the key kept if there is one
convert_table(toml_node, tree_, node_id) ==
    The({convert_members(toml_node, t, node_id, 1, Len(toml_node.items))
         : t \in {IF has_key(tree_, node_id)
                  THEN to_map_key(tree_, node_id, key(tree_, node_id))
                  ELSE to_map(tree_, node_id)}})

\* the array branch: to_seq, the key kept if there is one
convert_array(toml_node, tree_, node_id) ==
    The({convert_elements(toml_node, t, node_id, 1, Len(toml_node.items))
         : t \in {IF has_key(tree_, node_id)
                  THEN to_seq_key(tree_, node_id, key(tree_, node_id))
                  ELSE to_seq(tree_, node_id)}})

\* a slip: a value of no known kind is made a scalar of empty text
convert_dispatch_default_scalar(toml_node, tree_, node_id) ==
    IF is_table(toml_node) THEN convert_table(toml_node, tree_, node_id)
    ELSE IF is_array(toml_node) THEN convert_array(toml_node, tree_, node_id)
    ELSE IF is_string(toml_node) THEN convert_string(toml_node, tree_, node_id)
    ELSE IF is_integer(toml_node)
    THEN The({set_scalar(a.tree, node_id, a.str) : a \in {scalar_to_arena(tree_, toml_node)}})
    ELSE IF is_floating_point(toml_node)
    THEN The({set_scalar(a.tree, node_id, a.str) : a \in {float_to_arena(tree_, toml_node)}})
    ELSE IF is_boolean(toml_node)
    THEN The({set_scalar(a.tree, node_id, a.str) : a \in {bool_to_arena(tree_, toml_node)}})
    ELSE The({set_scalar(a.tree, node_id, a.str) : a \in {scalar_to_arena(tree_, toml_node)}})

\* the kind dispatch of convert_toml_value
convert_dispatch(toml_node, tree_, node_id) ==
    IF is_table(toml_node) THEN convert_table(toml_node, tree_, node_id)
    ELSE IF is_array(toml_node) THEN convert_array(toml_node, tree_, node_id)
    ELSE IF is_string(toml_node) THEN convert_string(toml_node, tree_, node_id)
    ELSE IF is_integer(toml_node)
    THEN The({set_scalar(a.tree, node_id, a.str) : a \in {scalar_to_arena(tree_, toml_node)}})
    ELSE IF is_floating_point(toml_node)
    THEN The({set_scalar(a.tree, node_id, a.str) : a \in {float_to_arena(tree_, toml_node)}})
    ELSE IF is_boolean(toml_node)
    THEN The({set_scalar(a.tree, node_id, a.str) : a \in {bool_to_arena(tree_, toml_node)}})
    ELSE IF is_date(toml_node) \/ is_time(toml_node) \/ is_date_time(toml_node)
    THEN The({set_scalar(a.tree, node_id, a.str) : a \in {scalar_to_arena(tree_, toml_node)}})
    ELSE tree_

\* Convert any TOML value to tree nodes; the log records the node's key on
\* entry ("visit") and on return ("leave")
convert_toml_value(toml_node, tree_, node_id) ==
    The({Logged(out, Event("leave", node_id, Text(out, key(out, node_id)),
                           has_key(out, node_id)))
         : out \in {convert_dispatch(toml_node,
                                     Logged(tree_, Event("visit", node_id,
                                                         Text(tree_, key(tree_, node_id)),
                                                         has_key(tree_, node_id))),
                                     node_id)}})

(* ---- what toml::parse returns ------------------------------------------- *)

\* one TOML text with what toml::parse makes of it: a table (members in
\* key order, as toml::table iterates) or a parse_error
Doc(text, ok, tbl, msg) == [text |-> text, ok |-> ok, tbl |-> tbl, msg |-> msg]

NoTable == VTbl(<<>>, <<>>)

(* ---- toml::parse: the TOML grammar of toml++ ------------------------------ *)
(* Texts are sequences of bytes.  A byte is the one-character string of its *)
(* character when a TLA+ string can hold it (the tab, the line feed, the    *)
(* form feed, the carriage return and the characters from the space to the  *)
(* tilde but the grave accent) and the string of x and its two hexadecimal  *)
(* digits otherwise: "x08" is the backspace, "x60" the grave accent,        *)
(* <<"xc3", "xa9">> is U+00E9.                                              *)

\* the 256 bytes in the order of their codes, which is the order std::map
\* compares keys in: the byte of code n is CharOrder[n + 1]
CharOrder ==
    LET hex == <<"0", "1", "2", "3", "4", "5", "6", "7", "8", "9",
                 "a", "b", "c", "d", "e", "f">>
        graphic ==
            <<" ", "!", "\"", "#", "$", "%", "&", "'", "(", ")", "*", "+", ",", "-", ".",
              "/", "0", "1", "2", "3", "4", "5", "6", "7", "8", "9", ":", ";", "<", "=",
              ">", "?", "@", "A", "B", "C", "D", "E", "F", "G", "H", "I", "J", "K", "L",
              "M", "N", "O", "P", "Q", "R", "S", "T", "U", "V", "W", "X", "Y", "Z", "[",
              "\\", "]", "^", "_", "a", "b", "c", "d", "e", "f", "g", "h", "i", "j",
              "k", "l", "m", "n", "o", "p", "q", "r", "s", "t", "u", "v", "w", "x", "y",
              "z", "{", "|", "}", "~">>
    IN [k \in 1..256 |->
           IF k = 10 THEN "\t"
           ELSE IF k = 11 THEN "\n"
           ELSE IF k = 13 THEN "\f"
           ELSE IF k = 14 THEN "\r"
           ELSE IF k \in 33..96 THEN graphic[k - 32]
           ELSE IF k \in 98..127 THEN graphic[k - 33]
           ELSE "x" \o hex[((k - 1) \div 16) + 1] \o hex[((k - 1) % 16) + 1]]

\* the code of a byte
Ord ==
    The({[c \in {bytes[k] : k \in 1..256} |-> (CHOOSE k \in 1..256 : bytes[k] = c) - 1]
         : bytes \in {CharOrder}})

DigitChars == {"0", "1", "2", "3", "4", "5", "6", "7", "8", "9"}

\* the characters of a bare key: letters, digits, _ and -
BareChars ==
    {"A", "B", "C", "D", "E", "F", "G", "H", "I", "J", "K", "L", "M",
     "N", "O", "P", "Q", "R", "S", "T", "U", "V", "W", "X", "Y", "Z",
     "a", "b", "c", "d", "e", "f", "g", "h", "i", "j", "k", "l", "m",
     "n", "o", "p", "q", "r", "s", "t", "u", "v", "w", "x", "y", "z"}
        \cup DigitChars \cup {"_", "-"}

\* the value of a digit of any base up to sixteen
HexVal(c) ==
    LET lower == <<"1", "2", "3", "4", "5", "6", "7", "8", "9", "a", "b", "c", "d", "e", "f">>
        upper == <<"1", "2", "3", "4", "5", "6", "7", "8", "9", "A", "B", "C", "D", "E", "F">>
    IN Cardinality({v \in 1..15 : \E w \in v..15 : c \in {lower[w], upper[w]}})

RECURSIVE DigitsToNat(_, _)
DigitsToNat(ds, base) ==
    IF ds = <<>> THEN 0
    ELSE DigitsToNat(SubSeq(ds, 1, Len(ds) - 1), base) * base + HexVal(ds[Len(ds)])

\* the character at a position, "" past the end
At(text, i) == IF i >= 1 /\ i <= Len(text) THEN text[i] ELSE ""

StartsWith(text, i, pat) ==
    /\ i >= 1
    /\ i + Len(pat) - 1 <= Len(text)
    /\ SubSeq(text, i, i + Len(pat) - 1) = pat

\* the first position from i on whose character is not in cs
SkipChars(text, i, cs) ==
    IF i > Len(text) THEN i
    ELSE CHOOSE j \in i..(Len(text) + 1) :
             /\ j > Len(text) \/ text[j] \notin cs
             /\ \A m \in i..(j - 1) : text[m] \in cs

\* the first position from i on whose character is in cs, or the end
FindChars(text, i, cs) ==
    IF i > Len(text) THEN i
    ELSE CHOOSE j \in i..(Len(text) + 1) :
             /\ j > Len(text) \/ text[j] \in cs
             /\ \A m \in i..(j - 1) : text[m] \notin cs

\* the bytes of text from lo to hi may stand in a string or a comment:
\* none is a control character other than the tab and the line feed, and
\* those of codes from 128 on are UTF-8 sequences of code points (two to
\* four bytes, of the shortest form, no surrogate, U+10FFFF at most)
Legal(text, lo, hi) ==
    The({LET more(k) == code[k] \in 128..191
             \* the number of bytes of the sequence that starts at position k
             sequence(k) ==
                 IF code[k] \in 194..223 /\ more(k + 1) THEN 2
                 ELSE IF /\ code[k] \in 224..239
                         /\ more(k + 1) /\ more(k + 2)
                         /\ (code[k] = 224 => code[k + 1] >= 160)
                         /\ (code[k] = 237 => code[k + 1] <= 159)
                 THEN 3
                 ELSE IF /\ code[k] \in 240..244
                         /\ more(k + 1) /\ more(k + 2) /\ more(k + 3)
                         /\ (code[k] = 240 => code[k + 1] >= 144)
                         /\ (code[k] = 244 => code[k + 1] <= 143)
                 THEN 4
                 ELSE 0
         IN \A m \in lo..hi :
                IF code[m] < 128 THEN code[m] \in {9, 10} \cup (32..126)
                ELSE \E k \in (m - 3)..m : k >= lo /\ sequence(k) > m - k
         \* the codes of the bytes, 0 past the end
         : code \in {[k \in lo..(hi + 3) |-> IF k <= Len(text) THEN Ord[text[k]] ELSE 0]}})

\* the first position from i on that is not white space, not a line end
\* (a line feed, or a carriage return and a line feed) and not in a
\* comment (# and the characters a comment may hold, up to the end of its
\* line)
SkipBlank(text, i) ==
    LET lineEnd(j) == text[j] = "\n" \/ (text[j] = "\r" /\ At(text, j + 1) = "\n")
        commented(j) ==
            \E h \in i..j : /\ text[h] = "#"
                            /\ \A m \in (h + 1)..j : text[m] # "\n"
                            /\ Legal(text, h + 1, j)
        blank(j) == text[j] \in {" ", "\t"} \/ lineEnd(j) \/ commented(j)
    IN IF i > Len(text) THEN i
       ELSE CHOOSE j \in i..(Len(text) + 1) :
                \A m \in i..j : (m < j) = (m <= Len(text) /\ blank(m))

\* the number of backslashes that end just before position k (from lo on)
BackslashRun(text, lo, k) ==
    CHOOSE r \in 0..(k - lo) :
        /\ \A m \in (k - r)..(k - 1) : text[m] = "\\"
        /\ (k - r = lo \/ text[k - r - 1] # "\\")

\* the content of a basic string with its escape sequences replaced: \b
\* \t \n \f \r \" \\ by their character, \uXXXX and \UXXXXXXXX by the
\* UTF-8 bytes of the code point; in a multi-line string a backslash at
\* the end of a line is dropped with the white space up to the next
\* character
Unescape(c, multiline) ==
    LET blankEnd(b) == SkipChars(c, b + 1, {" ", "\t", "\n"}) - 1
        \* the number of hexadecimal digits the escape at b takes
        width(b) == IF At(c, b + 1) = "u" THEN 4 ELSE IF At(c, b + 1) = "U" THEN 8 ELSE 0
        hexChars == DigitChars \cup {"a", "b", "c", "d", "e", "f", "A", "B", "C", "D", "E", "F"}
        \* the code point the escape at b names, -1 when it names none:
        \* that takes all the digits, a code up to 10FFFF, no surrogate
        point(b) ==
            The({The({IF /\ b + 1 + width(b) <= Len(c)
                         /\ \A k \in 1..Len(ds) : ds[k] \in hexChars
                         /\ \A k \in 1..(Len(ds) - 6) : ds[k] = "0"
                         /\ n <= 1114111
                         /\ n \notin 55296..57343
                      THEN n ELSE -1
                      : n \in {IF \E k \in 1..Len(ds) : ds[k] \notin hexChars THEN -1
                               ELSE DigitsToNat(SubSeq(ds, IF Len(ds) > 6 THEN Len(ds) - 5 ELSE 1,
                                                       Len(ds)), 16)}})
                 : ds \in {IF b + 1 + width(b) <= Len(c)
                           THEN SubSeq(c, b + 2, b + 1 + width(b)) ELSE <<>>}})
        bytes(codes) == [k \in 1..Len(codes) |-> CharOrder[codes[k] + 1]]
        utf8(n) ==
            IF n < 0 THEN <<>>
            ELSE bytes(IF n < 128 THEN <<n>>
                       ELSE IF n < 2048 THEN <<192 + (n \div 64), 128 + (n % 64)>>
                       ELSE IF n < 65536
                       THEN <<224 + (n \div 4096), 128 + ((n \div 64) % 64), 128 + (n % 64)>>
                       ELSE <<240 + (n \div 262144), 128 + ((n \div 4096) % 64),
                              128 + ((n \div 64) % 64), 128 + (n % 64)>>)
    IN The({The({The({
           LET joined(i) == \E b \in 1..(i - 1) : i <= joinEnd[b]
               escaped(i) == IF c[i] = "b" THEN <<"x08">>
                             ELSE IF c[i] = "t" THEN <<"\t">>
                             ELSE IF c[i] = "n" THEN <<"\n">>
                             ELSE IF c[i] = "f" THEN <<"\f">>
                             ELSE IF c[i] = "r" THEN <<"\r">>
                             ELSE IF c[i] \in {"u", "U"} THEN utf8(named[i - 1])
                             ELSE <<c[i]>>
               \* what position i gives to the string
               piece(i) ==
                   IF intro[i] \/ joined(i) THEN <<>>
                   ELSE IF i > 1 /\ intro[i - 1] THEN escaped(i)
                   ELSE IF \E b \in (i - 9)..(i - 2) :
                               b >= 1 /\ intro[b] /\ i <= b + 1 + width(b)
                   THEN <<>>
                   ELSE <<c[i]>>
           IN [ok |-> \A i \in 1..Len(c) :
                         intro[i] =>
                             \/ At(c, i + 1) \in {"\"", "\\", "b", "t", "n", "f", "r"}
                             \/ named[i] >= 0
                             \/ joinEnd[i] > 0,
               \* the pieces one after the other: four places for each, the
               \* places not taken left out
               s |-> SelectSeq([k \in 1..(4 * Len(c)) |->
                                   The({IF (k - 1) % 4 < Len(x) THEN x[((k - 1) % 4) + 1] ELSE ""
                                        : x \in {piece(((k - 1) \div 4) + 1)}})],
                               LAMBDA x : x # "")]
           \* the code point the escape \u or \U at b names, -1 where none is named
           : named \in {[b \in 1..Len(c) |->
                           IF intro[b] /\ width(b) > 0 THEN point(b) ELSE -1]}})
           \* a backslash at the end of a line: where the white space dropped
           \* with it ends, 0 where no such backslash is
           : joinEnd \in {[b \in 1..Len(c) |->
                             IF /\ multiline
                                /\ intro[b]
                                /\ \E m \in (b + 1)..blankEnd(b) : c[m] = "\n"
                                /\ \A m \in (b + 1)..(FindChars(c, b + 1, {"\n"}) - 1) :
                                       c[m] \in {" ", "\t"}
                             THEN blankEnd(b) ELSE 0]}})
           \* the backslashes that open an escape sequence: those an even
           \* number of backslashes precede
           : intro \in {[i \in 1..Len(c) |-> c[i] = "\\" /\ BackslashRun(c, 1, i) % 2 = 0]}})

\* the result of parsing something at a position: the position after it
\* and what was read
Parsed(pos, v) == [ok |-> TRUE, pos |-> pos, v |-> v]

NoParse == [ok |-> FALSE, pos |-> 0, v |-> <<>>]

\* "..." on one line
ParseBasic(text, i) ==
    LET closes(k) == \/ At(text, k) \in {"\n", ""}
                     \/ At(text, k) = "\"" /\ BackslashRun(text, i + 1, k) % 2 = 0
    IN The({IF At(text, j) # "\"" \/ ~Legal(text, i + 1, j - 1) THEN NoParse
            ELSE The({IF u.ok THEN Parsed(j + 1, u.s) ELSE NoParse
                      : u \in {Unescape(SubSeq(text, i + 1, j - 1), FALSE)}})
            : j \in {CHOOSE k \in (i + 1)..(Len(text) + 1) :
                         \A m \in (i + 1)..k : (m = k) = closes(m)}})

\* '...' on one line
ParseLiteral(text, i) ==
    LET j == FindChars(text, i + 1, {"'", "\n"})
    IN IF At(text, j) = "'" /\ Legal(text, i + 1, j - 1)
       THEN Parsed(j + 1, SubSeq(text, i + 1, j - 1))
       ELSE NoParse

\* """...""" and '''...''': a line end right after the opening is dropped,
\* every other line end is a line feed in the string, up to two quotes may
\* precede the closing
ParseMultiline(text, i, q, escapes) ==
    LET b == IF At(text, i + 3) = "\n" THEN i + 4
             ELSE IF StartsWith(text, i + 3, <<"\r", "\n">>) THEN i + 5
             ELSE i + 3
        closes(k) == \/ k = Len(text) + 1
                     \/ /\ StartsWith(text, k, <<q, q, q>>)
                        /\ (escapes => BackslashRun(text, b, k) % 2 = 0)
        \* the content without the carriage returns of its line ends
        lines(c) ==
            SelectSeq([k \in 1..Len(c) |->
                          IF c[k] = "\r" /\ At(c, k + 1) = "\n" THEN "" ELSE c[k]],
                      LAMBDA x : x # "")
    IN The({IF j > Len(text) THEN NoParse
            ELSE The({The({The({IF u.ok THEN Parsed(j + 3 + e, u.s) ELSE NoParse
                                : u \in {IF ~Legal(c, 1, Len(c))
                                         THEN [ok |-> FALSE, s |-> <<>>]
                                         ELSE IF escapes THEN Unescape(c, TRUE)
                                         ELSE [ok |-> TRUE, s |-> c]}})
                           : c \in {lines(SubSeq(text, b, j - 1 + e))}})
                      : e \in {IF At(text, j + 3) # q THEN 0
                               ELSE IF At(text, j + 4) # q THEN 1 ELSE 2}})
            : j \in {CHOOSE k \in b..(Len(text) + 1) :
                         \A m \in b..k : (m = k) = closes(m)}})

\* a string of any of the four forms
ParseString(text, i) ==
    IF StartsWith(text, i, <<"\"", "\"", "\"">>) \/ StartsWith(text, i, <<"'", "'", "'">>)
    THEN ParseMultiline(text, i, text[i], text[i] = "\"")
    ELSE IF At(text, i) = "\"" THEN ParseBasic(text, i)
    ELSE ParseLiteral(text, i)

\* a bare key (letters, digits, _ and -) or a quoted key
ParseSimpleKey(text, i) ==
    IF At(text, i) \in BareChars
    THEN The({Parsed(j, SubSeq(text, i, j - 1)) : j \in {SkipChars(text, i, BareChars)}})
    ELSE IF At(text, i) = "\"" /\ ~StartsWith(text, i, <<"\"", "\"", "\"">>)
    THEN ParseBasic(text, i)
    ELSE IF At(text, i) = "'" /\ ~StartsWith(text, i, <<"'", "'", "'">>)
    THEN ParseLiteral(text, i)
    ELSE NoParse

\* a dotted key: the sequence of its parts
RECURSIVE ParseKeyPath(_, _)
ParseKeyPath(text, i) ==
    The({IF ~k.ok THEN NoParse
         ELSE The({IF At(text, j) # "." THEN Parsed(k.pos, <<k.v>>)
                   ELSE The({IF r.ok THEN Parsed(r.pos, <<k.v>> \o r.v) ELSE NoParse
                             : r \in {ParseKeyPath(text,
                                                   SkipChars(text, j + 1, {" ", "\t"}))}})
                   : j \in {SkipChars(text, k.pos, {" ", "\t"})}})
         : k \in {ParseSimpleKey(text, i)}})

(* ---- toml::parse: numbers, booleans, dates and times ---------------------- *)

\* the number written with the digits ds, each of them worth the given
\* number of bits
RECURSIVE BasedValue(_, _)
BasedValue(ds, bits) ==
    IF ds = <<>> THEN <<>>
    ELSE IF Len(ds) = 1
    THEN The({IF v = 0 THEN <<>> ELSE IF v < 10 THEN <<v>> ELSE <<1, v - 10>>
              : v \in {HexVal(ds[1])}})
    ELSE The({The({The({BigAdd(x, lo) : x \in {BigTimesPow2(hi, bits * (Len(ds) - h))}})
                   : hi \in {BasedValue(SubSeq(ds, 1, h), bits)},
                     lo \in {BasedValue(SubSeq(ds, h + 1, Len(ds)), bits)}})
              : h \in {Len(ds) \div 2}})

\* digits of the set cs, with underscores only between two digits
ValidDigits(s, cs) ==
    /\ s # <<>>
    /\ \A i \in 1..Len(s) :
          \/ s[i] \in cs
          \/ /\ s[i] = "_"
             /\ i > 1 /\ i < Len(s)
             /\ s[i - 1] \in cs /\ s[i + 1] \in cs

\* an integer (decimal, or 0x, 0o, 0b) or a float (an integer part, then
\* a fraction, an exponent or both)
ParseNumber(tok) ==
    LET signed == tok # <<>> /\ tok[1] \in {"+", "-"}
        neg == IF signed /\ tok[1] = "-" THEN 1 ELSE 0
        plain(s) == SelectSeq(s, LAMBDA c : c # "_")
        whole(s) == ValidDigits(s, DigitChars) /\ (Len(s) = 1 \/ s[1] # "0")
        values(ds) == [i \in 1..Len(ds) |-> HexVal(ds[i])]
        \* 2^63 - 1, the largest int64_t
        most == <<9, 2, 2, 3, 3, 7, 2, 0, 3, 6, 8, 5, 4, 7, 7, 5, 8, 0, 7>>
        \* a number of digits of the given number of bits each
        based(body, cs, bits) ==
            The({IF ~signed /\ ValidDigits(body, cs)
                 THEN The({IF BigCmp(mag, most) <= 0 THEN Parsed(0, VInt(0, mag))
                           ELSE NoParse
                           : mag \in {BasedValue(ds, bits)}})
                 ELSE NoParse
                 : ds \in {plain(body)}})
        decimal(body) ==
            The({IF BigCmp(mag, IF neg = 1 THEN BigInc(most) ELSE most) <= 0
                 THEN Parsed(0, VInt(IF mag = <<>> THEN 0 ELSE neg, mag))
                 ELSE NoParse
                 : mag \in {BigTrim(values(plain(body)))}})
        \* mant * 10^exp is less than 2^1024 - 2^970 (which is 2^54 - 1
        \* times 2^970), from where on the nearest double is infinite
        finite(mant, exp) ==
            \/ Len(mant) + exp < 309
            \/ /\ Len(mant) + exp = 309
               /\ The({BigCmp(x, y)
                        : x \in {BigTimesPow10(mant, exp)},
                          y \in {BigTimesPow10(
                                     BigTimesPow2(<<1, 8, 0, 1, 4, 3, 9, 8, 5, 0, 9, 4, 8, 1, 9, 8, 3>>,
                                                  970), -exp)}}) < 0
        \* the number an exponent names, and 10^9 for any number beyond
        power(ebody) ==
            The({IF Len(ds) > 9 THEN 1000000000 ELSE DigitsToNat(ds, 10)
                 : ds \in {The({SubSeq(x, SkipChars(x, 1, {"0"}), Len(x))
                                : x \in {plain(ebody)}})}})
        \* a is the digits of the integer part and of the fraction; the
        \* mantissa is those from the first to the last that is not 0, and
        \* the exponent counts from there; a value too large for a double
        \* is an error, one too small for a double is zero
        float(body, ePos, dot, ip, fpart, ebody, a) ==
            The({IF /\ whole(ip)
                    /\ (dot < ePos \/ ePos <= Len(body))
                    /\ (dot < ePos => ValidDigits(fpart, DigitChars))
                    /\ (ePos <= Len(body) => ValidDigits(ebody, DigitChars))
                 THEN The({IF finite(mant, exp) THEN Parsed(0, VFlt(neg, mant, exp))
                           ELSE NoParse
                           : mant \in {values(SubSeq(a, lead, nz))},
                             exp \in {IF nz < lead THEN 0
                                      ELSE (IF ePos > Len(body) THEN 0
                                            ELSE IF body[ePos + 1] = "-" THEN -power(ebody)
                                            ELSE power(ebody))
                                           - Len(plain(fpart)) + (Len(a) - nz)}})
                 ELSE NoParse
                 : lead \in {SkipChars(a, 1, {"0"})},
                   nz \in {Cardinality({i \in 1..Len(a) : \E k \in i..Len(a) : a[k] # "0"})}})
        \* the integer part up to the first . or e, the fraction from there
        \* up to the e, the exponent after the e and its sign
        parts(body, ePos, dot) ==
            The({The({float(body, ePos, dot, ip, fpart, ebody, a)
                      : a \in {plain(ip) \o plain(fpart)}})
                 : ip \in {SubSeq(body, 1, dot - 1)},
                   fpart \in {SubSeq(body, dot + 1, ePos - 1)},
                   ebody \in {SubSeq(body,
                                     IF At(body, ePos + 1) \in {"+", "-"} THEN ePos + 2
                                     ELSE ePos + 1,
                                     Len(body))}})
    IN The({IF StartsWith(body, 1, <<"0", "x">>)
            THEN based(SubSeq(body, 3, Len(body)),
                       DigitChars \cup {"a", "b", "c", "d", "e", "f",
                                        "A", "B", "C", "D", "E", "F"}, 4)
            ELSE IF StartsWith(body, 1, <<"0", "o">>)
            THEN based(SubSeq(body, 3, Len(body)), {"0", "1", "2", "3", "4", "5", "6", "7"}, 3)
            ELSE IF StartsWith(body, 1, <<"0", "b">>)
            THEN based(SubSeq(body, 3, Len(body)), {"0", "1"}, 1)
            ELSE IF whole(body) THEN decimal(body)
            ELSE The({parts(body, ePos, dot)
                      : ePos \in {FindChars(body, 1, {"e", "E"})},
                        dot \in {FindChars(body, 1, {".", "e", "E"})}})
            : body \in {IF signed THEN Tail(tok) ELSE tok}})

\* the characters of tok from position i on follow the pattern: "9" stands
\* for any digit, every other character for itself
Match(tok, i, pat) ==
    \A k \in 1..Len(pat) :
        IF pat[k] = "9" THEN At(tok, i + k - 1) \in DigitChars
        ELSE At(tok, i + k - 1) = pat[k]

DatePat == <<"9", "9", "9", "9", "-", "9", "9", "-", "9", "9">>

\* a date YYYY-MM-DD, a time HH:MM:SS with up to nine digits of a
\* fraction, or a date, T or a space, a time and then nothing, Z or an
\* offset +HH:MM / -HH:MM
ParseTemporal(tok) ==
    LET num(i, n) == DigitsToNat(SubSeq(tok, i, i + n - 1), 10)
        \* the date is [y, m, d]; the time starts at position t, is
        \* [h, mi, sec] and has n digits of a fraction; what follows the
        \* time starts at position o, an offset there is [oh, om]
        result(hasDate, date, t, hasTime, time, n, o, hasOffset, off) ==
            LET days == IF date[2] = 2
                        THEN (IF date[1] % 4 = 0 /\ (date[1] % 100 # 0 \/ date[1] % 400 = 0)
                              THEN 29 ELSE 28)
                        ELSE IF date[2] \in {4, 6, 9, 11} THEN 30 ELSE 31
                dateOk == hasDate /\ date[2] \in 1..12 /\ date[3] \in 1..days
                timeOk == /\ hasTime
                          /\ time[1] <= 23 /\ time[2] <= 59 /\ time[3] <= 59
                          /\ (At(tok, t + 8) = "." => n \in 1..9)
                ns == IF n = 0 THEN 0 ELSE num(t + 9, n) * Pow10(9 - n)
                local == o = Len(tok) + 1
                zulu == o = Len(tok) /\ tok[o] \in {"Z", "z"}
                offset == hasOffset /\ off[1] <= 23 /\ off[2] <= 59
            IN IF hasDate /\ Len(tok) = 10
               THEN (IF dateOk THEN Parsed(0, VDate(date[1], date[2], date[3])) ELSE NoParse)
               ELSE IF hasDate
               THEN (IF /\ dateOk
                        /\ tok[11] \in {"T", "t", " "}
                        /\ timeOk
                        /\ (local \/ zulu \/ offset)
                     THEN Parsed(0, VDateTime(date[1], date[2], date[3],
                                              time[1], time[2], time[3], ns,
                                              IF local THEN 0 ELSE 1,
                                              IF local \/ zulu THEN 0
                                              ELSE IF tok[o] = "-" THEN -(off[1] * 60 + off[2])
                                              ELSE off[1] * 60 + off[2]))
                     ELSE NoParse)
               ELSE IF timeOk /\ local THEN Parsed(0, VTime(time[1], time[2], time[3], ns))
               ELSE NoParse
        after(hasDate, date, t, hasTime, time, n, o) ==
            The({The({result(hasDate, date, t, hasTime, time, n, o, hasOffset, off)
                      : off \in {IF hasOffset THEN <<num(o + 1, 2), num(o + 4, 2)>>
                                 ELSE <<0, 0>>}})
                 : hasOffset \in {/\ o + 5 = Len(tok)
                                  /\ tok[o] \in {"+", "-"}
                                  /\ Match(tok, o + 1, <<"9", "9", ":", "9", "9">>)}})
        fraction(hasDate, date, t, hasTime, time, n) ==
            The({after(hasDate, date, t, hasTime, time, n, o)
                 : o \in {IF At(tok, t + 8) = "." THEN t + 9 + n ELSE t + 8}})
        clock(hasDate, date, t) ==
            The({The({fraction(hasDate, date, t, hasTime, time, n)
                      : time \in {IF hasTime THEN <<num(t, 2), num(t + 3, 2), num(t + 6, 2)>>
                                  ELSE <<0, 0, 0>>},
                        n \in {IF At(tok, t + 8) = "."
                               THEN SkipChars(tok, t + 9, DigitChars) - (t + 9)
                               ELSE 0}})
                 : hasTime \in {Match(tok, t, <<"9", "9", ":", "9", "9", ":", "9", "9">>)}})
    IN The({The({clock(hasDate, date, t)
                 : date \in {IF hasDate THEN <<num(1, 4), num(6, 2), num(9, 2)>>
                             ELSE <<0, 0, 0>>},
                   t \in {IF hasDate THEN 12 ELSE 1}})
            : hasDate \in {Match(tok, 1, DatePat)}})

\* a value that is neither a string, an array nor an inline table
ParseScalar(tok) ==
    LET named(w) == tok \in {w, <<"+">> \o w, <<"-">> \o w}
    IN IF tok = <<"t", "r", "u", "e">> THEN Parsed(0, VBool(1))
       ELSE IF tok = <<"f", "a", "l", "s", "e">> THEN Parsed(0, VBool(0))
       ELSE IF named(<<"i", "n", "f">>) THEN Parsed(0, VInf(IF tok[1] = "-" THEN 1 ELSE 0))
       ELSE IF named(<<"n", "a", "n">>) THEN Parsed(0, VNaN(IF tok[1] = "-" THEN 1 ELSE 0))
       ELSE IF Match(tok, 1, <<"9", "9", "9", "9", "-">>) \/ Match(tok, 1, <<"9", "9", ":">>)
       THEN ParseTemporal(tok)
       ELSE ParseNumber(tok)

\* the end of the scalar that starts at position i: white space, a line
\* end, a comma, a closing bracket or a comment ends it; a date and a time
\* may be separated by one space
ScalarEnd(text, i) ==
    LET delims == {" ", "\t", "\n", "\r", ",", "]", "}", "#"}
        e == FindChars(text, i, delims)
    IN IF /\ e = i + 10
          /\ Match(text, i, DatePat)
          /\ Match(text, e, <<" ", "9", "9", ":">>)
       THEN FindChars(text, e + 1, delims)
       ELSE e

(* ---- toml::parse: tables -------------------------------------------------- *)

\* std::less on two keys: the order of their bytes
KeyLess(a, b) ==
    \E i \in 1..Len(b) :
        /\ i <= Len(a) + 1
        /\ SubSeq(a, 1, i - 1) = SubSeq(b, 1, i - 1)
        /\ (i = Len(a) + 1 \/ The({code[a[i]] < code[b[i]] : code \in {Ord}}))

\* the place of a key among the members of a table, NONE when it has none
TblIndex(tbl, k) ==
    IF \E i \in 1..Len(tbl.keys) : tbl.keys[i] = k
    THEN CHOOSE i \in 1..Len(tbl.keys) : tbl.keys[i] = k
    ELSE NONE

\* table::insert of a new key: the members stay in key order
TblPut(tbl, k, v) ==
    LET n == Cardinality({i \in 1..Len(tbl.keys) : KeyLess(tbl.keys[i], k)})
    IN VTbl(SubSeq(tbl.keys, 1, n) \o <<k>> \o SubSeq(tbl.keys, n + 1, Len(tbl.keys)),
            SubSeq(tbl.items, 1, n) \o <<v>> \o SubSeq(tbl.items, n + 1, Len(tbl.items)))

\* one step of the path from the root table to a node: into the member
\* of key k (i = NONE), or into the i-th element of an array
PathStep(k, i) == [k |-> k, i |-> i]

HasAt(v, st) == IF st.i # NONE THEN is_array(v) /\ st.i <= Len(v.items)
                ELSE is_table(v) /\ TblIndex(v, st.k) # NONE

ItemAt(v, st) == IF st.i # NONE THEN st.i ELSE TblIndex(v, st.k)

\* the node at the end of a path
RECURSIVE GetAt(_, _)
GetAt(v, path) ==
    IF path = <<>> THEN v ELSE GetAt(v.items[ItemAt(v, Head(path))], Tail(path))

\* the tree with x at the end of a path: in place of the node there, or
\* as a new member of its parent table, or as a new last element of its
\* parent array
RECURSIVE PutAt(_, _, _)
PutAt(v, path, x) ==
    IF path = <<>> THEN x
    ELSE IF HasAt(v, Head(path))
    THEN The({[v EXCEPT !.items[ItemAt(v, Head(path))] = sub]
              : sub \in {PutAt(v.items[ItemAt(v, Head(path))], Tail(path), x)}})
    ELSE IF Head(path).i # NONE THEN [v EXCEPT !.items = Append(@, x)]
    ELSE TblPut(v, Head(path).k, x)

\* what the parser knows while it reads: the root table, the path of the
\* table that key-value pairs go to, and the paths of the tables a header
\* named (explicit), a header passed through (implicit) and a dotted key
\* passed through (dotted), and of the arrays of tables (aot)
StartBuilding ==
    [ok |-> TRUE, root |-> NoTable, cur |-> <<>>, explicit |-> {}, implicit |-> {},
     dotted |-> {}, aot |-> {}]

\* after an error
Broken == [StartBuilding EXCEPT !.ok = FALSE]

\* a key = value pair in the table at path at; the parts of a dotted key
\* before the last name tables that dotted keys made or that headers
\* passed through, or make them
RECURSIVE InsertPair(_, _, _, _)
InsertPair(b, at, keys, v) ==
    LET p == at \o <<PathStep(Head(keys), NONE)>>
        here == HasAt(GetAt(b.root, at), PathStep(Head(keys), NONE))
    IN IF ~b.ok THEN Broken
       ELSE IF Len(keys) = 1
       THEN (IF here THEN Broken ELSE [b EXCEPT !.root = PutAt(b.root, p, v)])
       ELSE IF ~here
       THEN The({InsertPair(nb, p, Tail(keys), v)
                 : nb \in {[b EXCEPT !.root = PutAt(b.root, p, NoTable),
                                     !.dotted = @ \cup {p}]}})
       ELSE IF p \in b.dotted \cup b.implicit THEN InsertPair(b, p, Tail(keys), v)
       ELSE Broken

\* the path a header's names lead to, all but the last: through tables,
\* made when missing, and through the last element of an array of tables
RECURSIVE Descend(_, _, _)
Descend(b, at, keys) ==
    LET p == at \o <<PathStep(Head(keys), NONE)>>
        here == HasAt(GetAt(b.root, at), PathStep(Head(keys), NONE))
        sub == GetAt(b.root, p)
        open == p \in b.explicit \cup b.implicit \cup b.dotted
    IN IF ~b.ok THEN Broken
       ELSE IF Len(keys) <= 1 THEN [b EXCEPT !.cur = at]
       ELSE IF ~here
       THEN The({Descend(nb, p, Tail(keys))
                 : nb \in {[b EXCEPT !.root = PutAt(b.root, p, NoTable),
                                     !.implicit = @ \cup {p}]}})
       ELSE IF is_table(sub) /\ open THEN Descend(b, p, Tail(keys))
       ELSE IF p \in b.aot
       THEN The({Descend(b, q, Tail(keys))
                 : q \in {p \o <<PathStep(<<>>, Len(sub.items))>>}})
       ELSE Broken

\* node::is_array_of_tables(): an array that is not empty and holds tables
\* only
is_array_of_tables(v) ==
    is_array(v) /\ Len(v.items) > 0 /\ \A j \in 1..Len(v.items) : is_table(v.items[j])

\* every member of the table at path p is a table or an array of tables (a
\* table without members passes)
OnlyTables(b, p) ==
    The({\A i \in 1..Len(tbl.items) :
             is_table(tbl.items[i]) \/ is_array_of_tables(tbl.items[i])
         : tbl \in {GetAt(b.root, p)}})

\* [a.b.c]: the table is new, or one that headers only passed through and
\* that has no members but tables and arrays of tables; a header that
\* names any other table defines it again, which is an error
OpenTable(b, keys) ==
    The({LET name == PathStep(keys[Len(keys)], NONE)
             p == d.cur \o <<name>>
         IN IF ~d.ok THEN Broken
            ELSE IF ~HasAt(GetAt(d.root, d.cur), name)
            THEN [d EXCEPT !.root = PutAt(d.root, p, NoTable), !.cur = p,
                           !.explicit = @ \cup {p}]
            ELSE IF p \in d.implicit /\ OnlyTables(d, p)
            THEN [d EXCEPT !.cur = p, !.explicit = @ \cup {p}, !.implicit = @ \ {p}]
            ELSE Broken
         : d \in {Descend(b, <<>>, keys)}})

\* [[a.b.c]]: a new table at the end of the array, which is new or was
\* made by such a header
OpenArrayTable(b, keys) ==
    The({LET name == PathStep(keys[Len(keys)], NONE)
             p == d.cur \o <<name>>
             here == HasAt(GetAt(d.root, d.cur), name)
             q == p \o <<PathStep(<<>>, IF here THEN Len(GetAt(d.root, p).items) + 1
                                        ELSE 1)>>
         IN IF ~d.ok THEN Broken
            ELSE IF ~here
            THEN [d EXCEPT !.root = PutAt(d.root, p, VArr(<<NoTable>>)), !.cur = q,
                           !.aot = @ \cup {p}]
            ELSE IF p \in d.aot
            THEN [d EXCEPT !.root = PutAt(d.root, q, NoTable), !.cur = q]
            ELSE Broken
         : d \in {Descend(b, <<>>, keys)}})

(* ---- toml::parse: values, statements and documents ------------------------ *)

\* a value at position i: a string, an array, an inline table or a scalar
RECURSIVE ParseValue(_, _), ParseArrayItems(_, _, _), ParseInlinePairs(_, _, _)
ParseValue(text, i) ==
    IF At(text, i) \in {"\"", "'"}
    THEN The({IF s.ok THEN Parsed(s.pos, VStr(s.v)) ELSE NoParse
              : s \in {ParseString(text, i)}})
    ELSE IF At(text, i) = "["
    THEN The({IF a.ok /\ a.done THEN Parsed(a.pos, VArr(a.v)) ELSE NoParse
              : a \in {ParseArrayItems(text,
                                       [ok |-> TRUE, done |-> FALSE, pos |-> i + 1, v |-> <<>>],
                                       1 + Cardinality({k \in (i + 1)..Len(text) :
                                                           text[k] = ","}))}})
    ELSE IF At(text, i) = "{"
    THEN The({IF At(text, j) = "}" THEN Parsed(j + 1, NoTable)
              ELSE ParseInlinePairs(text, j, StartBuilding)
              : j \in {SkipChars(text, i + 1, {" ", "\t"})}})
    ELSE The({The({IF v.ok THEN Parsed(e, v.v) ELSE NoParse
                   : v \in {ParseScalar(SubSeq(text, i, e - 1))}})
              : e \in {ScalarEnd(text, i)}})

\* the next element of an array, after the elements a.v: line ends and
\* comments may stand between the elements, a comma may follow the last
ParseArrayItem(text, a) ==
    The({IF At(text, j) = "]" THEN [a EXCEPT !.done = TRUE, !.pos = j + 1]
         ELSE The({IF ~v.ok THEN [a EXCEPT !.ok = FALSE]
                   ELSE The({IF At(text, k) = ","
                             THEN [a EXCEPT !.pos = k + 1, !.v = Append(@, v.v)]
                             ELSE IF At(text, k) = "]"
                             THEN [a EXCEPT !.done = TRUE, !.pos = k + 1,
                                            !.v = Append(@, v.v)]
                             ELSE [a EXCEPT !.ok = FALSE]
                             : k \in {SkipBlank(text, v.pos)}})
                   : v \in {ParseValue(text, j)}})
         : j \in {SkipBlank(text, a.pos)}})

\* up to n elements of an array, up to its closing bracket: the first
\* half of them, then the rest
ParseArrayItems(text, a, n) ==
    IF ~a.ok \/ a.done THEN a
    ELSE IF n <= 1 THEN ParseArrayItem(text, a)
    ELSE The({The({ParseArrayItems(text, mid, n - h)
                   : mid \in {ParseArrayItems(text, a, h)}})
              : h \in {n \div 2}})

\* key = value at position i, put into the table being built
ParsePair(text, i, b) ==
    The({IF ~k.ok THEN NoParse
         ELSE The({IF At(text, e) # "=" THEN NoParse
                   ELSE The({IF ~v.ok THEN NoParse
                             ELSE The({IF nb.ok THEN Parsed(v.pos, nb) ELSE NoParse
                                       : nb \in {InsertPair(b, b.cur, k.v, v.v)}})
                             : v \in {ParseValue(text, SkipChars(text, e + 1, {" ", "\t"}))}})
                   : e \in {SkipChars(text, k.pos, {" ", "\t"})}})
         : k \in {ParseKeyPath(text, i)}})

\* the pairs of an inline table from position i on, on one line, with
\* commas between them
ParseInlinePairs(text, i, b) ==
    The({IF ~p.ok THEN NoParse
         ELSE The({IF At(text, j) = "}" THEN Parsed(j + 1, p.v.root)
                   ELSE IF At(text, j) = ","
                   THEN ParseInlinePairs(text, SkipChars(text, j + 1, {" ", "\t"}), p.v)
                   ELSE NoParse
                   : j \in {SkipChars(text, p.pos, {" ", "\t"})}})
         : p \in {ParsePair(text, i, b)}})

\* [names] or [[names]] at position i
ParseHeader(text, i, b) ==
    LET double == At(text, i + 1) = "["
        close == IF double THEN <<"]", "]">> ELSE <<"]">>
    IN The({IF ~k.ok THEN NoParse
            ELSE The({IF ~StartsWith(text, e, close) THEN NoParse
                      ELSE The({IF nb.ok THEN Parsed(e + Len(close), nb) ELSE NoParse
                                : nb \in {IF double THEN OpenArrayTable(b, k.v)
                                          ELSE OpenTable(b, k.v)}})
                      : e \in {SkipChars(text, k.pos, {" ", "\t"})}})
            : k \in {ParseKeyPath(text, SkipChars(text, i + Len(close), {" ", "\t"}))}})

\* the next statement after position r.pos, a header or a pair, alone on
\* its line but for white space and a comment; r.v is the table so far
ParseStatement(text, r) ==
    The({IF j > Len(text) THEN Parsed(j, r.v)
         ELSE The({IF ~s.ok THEN NoParse
                   ELSE The({IF \/ At(text, e) \in {"\n", "#", ""}
                                \/ StartsWith(text, e, <<"\r", "\n">>)
                             THEN Parsed(e, s.v)
                             ELSE NoParse
                             : e \in {SkipChars(text, s.pos, {" ", "\t"})}})
                   : s \in {IF At(text, j) = "[" THEN ParseHeader(text, j, r.v)
                            ELSE ParsePair(text, j, r.v)}})
         : j \in {SkipBlank(text, r.pos)}})

\* up to n statements: the first half of them, then the rest
RECURSIVE ParseStatements(_, _, _)
ParseStatements(text, r, n) ==
    IF ~r.ok \/ r.pos > Len(text) THEN r
    ELSE IF n <= 1 THEN ParseStatement(text, r)
    ELSE The({The({ParseStatements(text, mid, n - h)
                   : mid \in {ParseStatements(text, r, h)}})
              : h \in {n \div 2}})

\* what a parse_error streams: a description, then the path of the source
ErrorText == <<"p", "a", "r", "s", "e", "_", "e", "r", "r", "o", "r">>

(* ---- the documents the environment supplies ----------------------------- *)

Corpus ==
    << Doc(<<>>, TRUE, VTbl(<<>>, <<>>), <<>>),
       \* a=1
       Doc(<<"a", "=", "1">>, TRUE, VTbl(<< <<"a">> >>, <<VInt(0, <<1>>)>>), <<>>),
       \* ""=""
       Doc(<<"\"", "\"", "=", "\"", "\"">>, TRUE, VTbl(<< <<>> >>, <<VStr(<<>>)>>), <<>>),
       \* z=-12 a="v" l=["w"]
       Doc(<<"z", "=", "-", "1", "2", "\n", "a", "=", "\"", "v", "\"", "\n",
             "l", "=", "[", "\"", "w", "\"", "]">>, TRUE,
           VTbl(<< <<"a">>, <<"l">>, <<"z">> >>,
                <<VStr(<<"v">>), VArr(<<VStr(<<"w">>)>>), VInt(1, <<1, 2>>)>>), <<>>),
       \* b=[0,"x y"]
       Doc(<<"b", "=", "[", "0", ",", "\"", "x", " ", "y", "\"", "]">>, TRUE,
           VTbl(<< <<"b">> >>, <<VArr(<<VInt(0, <<>>), VStr(<<"x", " ", "y">>)>>)>>), <<>>),
       \* t={x=true}
       Doc(<<"t", "=", "{", "x", "=", "t", "r", "u", "e", "}">>, TRUE,
           VTbl(<< <<"t">> >>, <<VTbl(<< <<"x">> >>, <<VBool(1)>>)>>), <<>>),
       \* f=[inf,-inf,nan,-nan]
       Doc(<<"f", "=", "[", "i", "n", "f", ",", "-", "i", "n", "f", ",", "n", "a", "n", ",",
             "-", "n", "a", "n", "]">>, TRUE,
           VTbl(<< <<"f">> >>, <<VArr(<<VInf(0), VInf(1), VNaN(0), VNaN(1)>>)>>), <<>>),
       \* p=3.14159 q=-inf n=nan
       Doc(<<"p", "=", "3", ".", "1", "4", "1", "5", "9", "\n", "q", "=", "-", "i", "n", "f",
             "\n", "n", "=", "n", "a", "n">>, TRUE,
           VTbl(<< <<"n">>, <<"p">>, <<"q">> >>, <<VNaN(0), VFlt(0, <<3, 1, 4, 1, 5, 9>>, -5), VInf(1)>>),
           <<>>),
       \* e=[1e10,-0.5,1234567.0,1.234575]
       Doc(<<"e", "=", "[", "1", "e", "1", "0", ",", "-", "0", ".", "5", ",",
             "1", "2", "3", "4", "5", "6", "7", ".", "0", ",",
             "1", ".", "2", "3", "4", "5", "7", "5", "]">>, TRUE,
           VTbl(<< <<"e">> >>,
                <<VArr(<<VFlt(0, <<1>>, 10), VFlt(1, <<5>>, -1), VFlt(0, <<1, 2, 3, 4, 5, 6, 7>>, 0),
                         VFlt(0, <<1, 2, 3, 4, 5, 7, 5>>, -6)>>)>>),
           <<>>),
       \* d=1979-05-27 t=07:32:00.5 o=1979-05-27T07:32:00-07:00
       Doc(<<"d", "=", "1", "9", "7", "9", "-", "0", "5", "-", "2", "7", "\n",
             "t", "=", "0", "7", ":", "3", "2", ":", "0", "0", ".", "5", "\n",
             "o", "=", "1", "9", "7", "9", "-", "0", "5", "-", "2", "7", "T",
             "0", "7", ":", "3", "2", ":", "0", "0", "-", "0", "7", ":", "0", "0">>, TRUE,
           VTbl(<< <<"d">>, <<"o">>, <<"t">> >>,
                <<VDate(1979, 5, 27), VDateTime(1979, 5, 27, 7, 32, 0, 0, 1, -420),
                  VTime(7, 32, 0, 500000000)>>), <<>>),
       \* c=[0001-01-01,23:59:59,1979-05-27T07:32:00Z]
       Doc(<<"c", "=", "[", "0", "0", "0", "1", "-", "0", "1", "-", "0", "1", ",",
             "2", "3", ":", "5", "9", ":", "5", "9", ",",
             "1", "9", "7", "9", "-", "0", "5", "-", "2", "7", "T",
             "0", "7", ":", "3", "2", ":", "0", "0", "Z", "]">>, TRUE,
           VTbl(<< <<"c">> >>,
                <<VArr(<<VDate(1, 1, 1), VTime(23, 59, 59, 0),
                         VDateTime(1979, 5, 27, 7, 32, 0, 0, 1, 0)>>)>>), <<>>),
       \* a=[[],[false]]
       Doc(<<"a", "=", "[", "[", "]", ",", "[", "f", "a", "l", "s", "e", "]", "]">>, TRUE,
           VTbl(<< <<"a">> >>, <<VArr(<<VArr(<<>>), VArr(<<VBool(0)>>)>>)>>), <<>>),
       \* a=[{n=0.0}]
       Doc(<<"a", "=", "[", "{", "n", "=", "0", ".", "0", "}", "]">>, TRUE,
           VTbl(<< <<"a">> >>, <<VArr(<<VTbl(<< <<"n">> >>, <<VFlt(0, <<>>, 0)>>)>>)>>), <<>>),
       \* [t] k=1
       Doc(<<"[", "t", "]", "\n", "k", "=", "1">>, TRUE,
           VTbl(<< <<"t">> >>, <<VTbl(<< <<"k">> >>, <<VInt(0, <<1>>)>>)>>), <<>>),
       \* [x.y] [x]   (the second header names a table the first passed through)
       Doc(<<"[", "x", ".", "y", "]", "\n", "[", "x", "]">>, TRUE,
           VTbl(<< <<"x">> >>, <<VTbl(<< <<"y">> >>, <<VTbl(<<>>, <<>>)>>)>>), <<>>),
       \* [[a]] [[a]]
       Doc(<<"[", "[", "a", "]", "]", "\n", "[", "[", "a", "]", "]">>, TRUE,
           VTbl(<< <<"a">> >>, <<VArr(<<VTbl(<<>>, <<>>), VTbl(<<>>, <<>>)>>)>>), <<>>),
       \* a=   (no value)
       Doc(<<"a", "=">>, FALSE, NoTable, ErrorText),
       \* [x.y.z] [x] y.w=1 [x.y]   (the last header names a table that holds
       \* a member a key-value pair made)
       Doc(<<"[", "x", ".", "y", ".", "z", "]", "\n", "[", "x", "]", "\n",
             "y", ".", "w", "=", "1", "\n", "[", "x", ".", "y", "]">>,
           FALSE, NoTable, ErrorText),
       \* [a] [a]   (a header names a table a header defined)
       Doc(<<"[", "a", "]", "\n", "[", "a", "]">>, FALSE, NoTable, ErrorText) >>

Docs == 1..Len(Corpus)

\* toml::parse reads nothing but the text: the document it makes of it.
\* A byte order mark at the start is passed over; after the last statement
\* only white space, line ends and comments may follow.
ParseDocument(text) ==
    The({IF r.ok /\ SkipBlank(text, r.pos) > Len(text) THEN r ELSE NoParse
         : r \in {ParseStatements(
                      text,
                      Parsed(IF StartsWith(text, 1, <<"xef", "xbb", "xbf">>) THEN 4 ELSE 1,
                             StartBuilding),
                      1 + Cardinality({k \in 1..Len(text) : text[k] = "\n"}))}})

\* what toml::parse makes of the texts of the corpus, computed once
CorpusParses == [t \in {Corpus[d].text : d \in Docs} |-> ParseDocument(t)]

\* toml::parse(toml_sv, filename_str): the table of the document, or a
\* parse_error that names the source path
toml_parse(text, filename) ==
    The({The({IF r.ok THEN Doc(t, TRUE, r.v.root, <<>>)
              ELSE Doc(t, FALSE, NoTable, ErrorText \o filename)
              : r \in {The({IF t \in DOMAIN known THEN known[t] ELSE ParseDocument(t)
                            : known \in {CorpusParses}})}})
         : t \in {text}})

\* a file of the file system: present or not, with its content
File(exists, content) == [exists |-> exists, content |-> content]

\* toml::parse_file(filename_str): a file that cannot be opened is a parse_error
toml_parse_file(file, filename) ==
    IF ~file.exists
    THEN Doc(<<>>, FALSE, NoTable, <<"n", "o", " ", "f", "i", "l", "e">> \o filename)
    ELSE toml_parse(file.content, filename)

\* the catch block: the message goes to the global error callback, which
\* throws or returns; then return
report_error(t, msg, cb) ==
    [tree |-> Logged(t, Event("error_cb", NONE, msg, cb = "throws")),
     status |-> IF cb = "throws" THEN "thrown" ELSE "returned"]

\* a slip: no return after the callback, so that a callback that returns
\* lets the call go on to convert_toml_value with the empty table
parse_toml_impl_no_return(filename, toml, t, node_id, cb) ==
    The({The({IF ~r.ok
              THEN The({IF e.status = "thrown" THEN e
                        ELSE [tree |-> convert_toml_value(r.tbl, e.tree, node_id),
                              status |-> e.status]
                        : e \in {report_error(Logged(t, SpanEvent("parse", toml, toml_sv, FALSE)),
                                               r.msg, cb)}})
              ELSE [tree |-> convert_toml_value(r.tbl,
                                                Logged(t, SpanEvent("parse", toml, toml_sv, TRUE)),
                                                node_id),
                    status |-> "ok"]
              : r \in {toml_parse(toml_sv, filename)}})
         : toml_sv \in {Text(t, toml)}})

\* toml::parse, then the catch block or convert_toml_value
parse_toml_impl(filename, toml, t, node_id, cb) ==
    The({The({IF ~r.ok THEN report_error(Logged(t, SpanEvent("parse", toml, toml_sv, FALSE)),
                                        r.msg, cb)
              ELSE [tree |-> convert_toml_value(r.tbl,
                                                Logged(t, SpanEvent("parse", toml, toml_sv, TRUE)),
                                                node_id),
                    status |-> "ok"]
              : r \in {toml_parse(toml_sv, filename)}})
         : toml_sv \in {Text(t, toml)}})

\* toml::parse_file, then the catch block or convert_toml_value
parse_toml_file_impl(filename, file, t, node_id, cb) ==
    The({IF ~r.ok THEN report_error(Logged(t, Event("parse_file", NONE, filename, FALSE)),
                                   r.msg, cb)
         ELSE [tree |-> convert_toml_value(r.tbl,
                                           Logged(t, Event("parse_file", NONE, filename, TRUE)),
                                           node_id),
               status |-> "ok"]
         : r \in {toml_parse_file(file, filename)}})

parse_toml_in_place(filename, toml, t, node_id, cb) ==
    parse_toml_impl(filename, toml, t, node_id, cb)

\* a slip: the overload forwards the root, not the node it was given
parse_toml_in_arena_on_root(filename, toml, t, node_id, cb) ==
    The({The({parse_toml_impl(filename, a.buf, copied, root_id(t), cb)
              : copied \in {memcpy(a.tree, a.buf, Text(t, toml))}})
         : a \in {alloc_arena(t, toml.len)}})

\* a slip: the copy is made, the parser is given the caller's buffer
parse_toml_in_arena_caller_buffer(filename, toml, t, node_id, cb) ==
    The({The({parse_toml_impl(filename, toml, copied, node_id, cb)
              : copied \in {memcpy(a.tree, a.buf, Text(t, toml))}})
         : a \in {alloc_arena(t, toml.len)}})

\* Copy to arena first
parse_toml_in_arena(filename, toml, t, node_id, cb) ==
    The({The({parse_toml_impl(filename, a.buf, copied, node_id, cb)
              : copied \in {memcpy(a.tree, a.buf, Text(t, toml))}})
         : a \in {alloc_arena(t, toml.len)}})

parse_toml_file(filename, file, t, node_id, cb) ==
    parse_toml_file_impl(filename, file, t, node_id, cb)

(* ---- the state machine ---------------------------------------------------- *)

Filenames == {<<>>, <<"f">>}

Callbacks == {"throws", "returns"}

CallerKeys == {<<"k">>}

Modes == {"in_place", "in_arena", "file"}

\* the tree without the log of a pass
Stored(t) == [nodes |-> t.nodes, arena |-> t.arena]

Running(t) == [nodes |-> t.nodes, arena |-> t.arena, log |-> <<>>]

RECURSIVE NodeCount(_)
RECURSIVE NodeCountAll(_, _)
NodeCountAll(items, i) == IF i > Len(items) THEN 0
                          ELSE NodeCount(items[i]) + NodeCountAll(items, i + 1)
\* the number of values of a hierarchy
NodeCount(v) == 1 + NodeCountAll(v.items, 1)

\* the subtree at a node: type, key text, value text and the children's
RECURSIVE Shape(_, _)
Shape(t, id) ==
    [type |-> t.nodes[id].type,
     key |-> Text(t, t.nodes[id].key),
     val |-> Text(t, t.nodes[id].val),
     kids |-> [i \in 1..Len(t.nodes[id].children) |-> Shape(t, t.nodes[id].children[i])]]

\* a node a caller may hand to an entry point: a node nothing was written
\* to yet (the root of a new tree, or a child the caller appended: keyed
\* in a map, keyless in a sequence)
Target(t, id) ==
    /\ id \in 1..Len(t.nodes)
    /\ ~has_children(t, id)
    /\ t.nodes[id].type \subseteq {"KEY"}
    /\ t.nodes[id].val = NullSpan

NoCall ==
    [mode |-> "none", filename |-> <<>>, exists |-> TRUE, text |-> <<>>, doc |-> NoTable,
     node |-> NONE, status |-> "none", pre |-> Stored(EmptyTree), log |-> <<>>]

\* last describes the entry-point call that made the current state, if one
\* did.  The call of one entry point: on the caller's tree and node, or (fresh)
\* on a Tree constructed for the call, which is returned unless the
\* callback throws.  passes remembers, for the tree at hand, which document
\* was materialized into which node, and the subtree the pass left there.
Call(mode, fresh, filename, d, exists, node, cb) ==
    \E given \in {Corpus[d]} :
    LET pre == IF fresh THEN Stored(EmptyTree) ELSE tree
        t == Running(pre)
        toml == ExtSpan(given.text)
        parsed == mode # "file" \/ exists
        kept == IF fresh THEN {} ELSE DOMAIN passes
    IN /\ Target(pre, node)
       /\ ~(parsed /\ given.ok) => cb_calls < MaxErrors
       /\ \E r \in {IF mode = "in_place" THEN parse_toml_in_place(filename, toml, t, node, cb)
                    ELSE IF mode = "in_arena"
                    THEN parse_toml_in_arena(filename, toml, t, node, cb)
                    ELSE parse_toml_file(filename, File(exists, given.text), t, node, cb)} :
            LET dropped == fresh /\ r.status = "thrown"
            IN /\ tree' = IF dropped THEN tree ELSE Stored(r.tree)
               /\ last' = [mode |-> mode, filename |-> filename, exists |-> exists,
                           text |-> given.text,
                           doc |-> IF parsed THEN given.tbl ELSE NoTable,
                           node |-> node, status |-> r.status,
                           pre |-> pre, log |-> r.tree.log]
               /\ passes' = IF dropped \/ (r.status # "ok" /\ ~fresh) THEN passes
                            ELSE IF r.status # "ok" THEN << >>
                            ELSE [n \in kept \cup {node} |->
                                     IF n = node
                                     THEN [doc |-> d, keyed |-> has_key(pre, node),
                                           shape |-> Shape(r.tree, node)]
                                     ELSE passes[n]]
               /\ cb_calls' = cb_calls + (IF r.status = "ok" THEN 0 ELSE 1)

\* the installed error callback matters only to a call that reports an
\* error: for any other call one callback stands for both
CallbacksFor(d, exists) == IF Corpus[d].ok /\ exists THEN {"throws"} ELSE Callbacks

\* the overloads on a Tree* (with or without a node id) and on a NodeRef,
\* given a node nothing was written to yet
ParseInPlace ==
    \E n \in 1..Len(tree.nodes) :
        /\ Target(tree, n)
        /\ \E f \in Filenames, d \in Docs :
              \E cb \in CallbacksFor(d, TRUE) : Call("in_place", FALSE, f, d, TRUE, n, cb)

\* the overloads that return a Tree: the first tree the caller holds
ParseInPlaceNew ==
    \E f \in Filenames, d \in Docs :
        \E cb \in CallbacksFor(d, TRUE) :
            /\ tree = Stored(EmptyTree)
            /\ Call("in_place", TRUE, f, d, TRUE, root_id(EmptyTree), cb)

ParseInArena ==
    \E n \in 1..Len(tree.nodes) :
        /\ Target(tree, n)
        /\ \E f \in Filenames, d \in Docs :
              \E cb \in CallbacksFor(d, TRUE) : Call("in_arena", FALSE, f, d, TRUE, n, cb)

ParseInArenaNew ==
    \E f \in Filenames, d \in Docs :
        \E cb \in CallbacksFor(d, TRUE) :
            /\ tree = Stored(EmptyTree)
            /\ Call("in_arena", TRUE, f, d, TRUE, root_id(EmptyTree), cb)

ParseFile ==
    \E n \in 1..Len(tree.nodes) :
        /\ Target(tree, n)
        /\ \E d \in Docs, e \in BOOLEAN :
              \E cb \in CallbacksFor(d, e) : Call("file", FALSE, <<"f">>, d, e, n, cb)

ParseFileNew ==
    \E d \in Docs, e \in BOOLEAN :
        \E cb \in CallbacksFor(d, e) :
            /\ tree = Stored(EmptyTree)
            /\ Call("file", TRUE, <<"f">>, d, e, root_id(EmptyTree), cb)

\* the caller adds a node to a container of its tree, to hand it to an
\* entry point next: keyed (the key in the caller's memory) under a map,
\* keyless under a sequence
CallerAppendChild ==
    \E p \in 1..Len(tree.nodes), k \in CallerKeys :
        /\ Len(tree.nodes) < MaxNodes
        /\ \A n \in 1..Len(tree.nodes) : ~Target(tree, n)
        /\ is_map(tree, p) \/ is_seq(tree, p)
        /\ LET c == append_child(Running(tree), p)
               keyed == [c.tree EXCEPT !.nodes[c.id].key = ExtSpan(k),
                                      !.nodes[c.id].type = {"KEY"}]
           IN tree' = Stored(IF is_map(tree, p) THEN keyed ELSE c.tree)
        /\ last' = NoCall
        /\ UNCHANGED <<passes, cb_calls>>

Init == /\ tree = Stored(EmptyTree)
        /\ last = NoCall
        /\ passes = << >>
        /\ cb_calls = 0

Next == \/ ParseInPlace
        \/ ParseInPlaceNew
        \/ ParseInArena
        \/ ParseInArenaNew
        \/ ParseFile
        \/ ParseFileNew
        \/ CallerAppendChild

Spec == Init /\ [][Next]_vars

(* ---- convert_toml_value on any toml::node ---------------------------------- *)

\* a toml::node for which every is_<kind>() of the dispatch is false
VOther == Value("other", <<>>, <<>>, <<>>, <<>>)

\* the values convert_toml_value is applied to: of no known kind, alone,
\* in tables and in arrays, next to values of known kinds
KindValues ==
    {VOther, VInt(0, <<1>>), VStr(<<"v">>), VTbl(<<>>, <<>>), VArr(<<>>),
     VTbl(<< <<"u">> >>, <<VOther>>),
     VArr(<<VOther>>),
     VTbl(<< <<"a">>, <<"u">> >>, <<VInt(0, <<1>>), VOther>>),
     VArr(<<VOther, VBool(1), VOther>>),
     VTbl(<< <<"t">>, <<"u">> >>, <<VArr(<<VOther>>), VOther>>)}

\* convert_toml_value(toml_node, tree, node_id) called on a node of the tree
Materialize ==
    \E v \in KindValues, n \in 1..Len(tree.nodes) :
        /\ Target(tree, n)
        /\ Len(tree.nodes) <= MaxNodes
        /\ \E r \in {convert_toml_value(v, Running(tree), n)} :
              /\ tree' = Stored(r)
              /\ last' = [mode |-> "materialize", filename |-> <<>>, exists |-> TRUE,
                          text |-> <<>>, doc |-> v, node |-> n, status |-> "ok",
                          pre |-> tree, log |-> r.log]
        /\ UNCHANGED <<passes, cb_calls>>

NextKinds == \/ Materialize
             \/ CallerAppendChild

SpecKinds == Init /\ [][NextKinds]_vars

(* ---- a call followed step by step ------------------------------------------ *)

\* an activation of convert_toml_value: its value, its node and the member
\* its loop is at (0: the body is not entered yet)
Frame(v, node) == [v |-> v, node |-> node, i |-> 0]

\* an entry point up to the call of convert_toml_value: the copy to the
\* arena (arena mode), the parser, and on a parse_error the catch block
Prologue(mode, filename, text, exists, t, cb) ==
    The({The({The({IF r.ok THEN [tree |-> entered, status |-> "running", tbl |-> r.tbl]
                   ELSE The({[tree |-> e.tree, status |-> e.status, tbl |-> NoTable]
                             : e \in {report_error(entered, r.msg, cb)}})
                   : entered \in {IF mode = "file"
                                  THEN Logged(src.tree,
                                              Event("parse_file", NONE, filename, r.ok))
                                  ELSE Logged(src.tree,
                                              SpanEvent("parse", src.buf,
                                                        Text(src.tree, src.buf), r.ok))}})
              : r \in {IF mode = "file" THEN toml_parse_file(File(exists, text), filename)
                       ELSE toml_parse(Text(src.tree, src.buf), filename)}})
         : src \in {IF mode = "in_arena"
                    THEN The({[tree |-> memcpy(a.tree, a.buf, text), buf |-> a.buf]
                              : a \in {alloc_arena(t, Len(text))}})
                    ELSE [tree |-> t, buf |-> ExtSpan(text)]}})

\* the body up to the loop: the kind of a table or an array is assigned;
\* a scalar (no loop, no recursive call) is converted and the call returns
enter_frame(t, stack) ==
    LET f == stack[Len(stack)]
        rest == SubSeq(stack, 1, Len(stack) - 1)
        seen == Logged(t, Event("visit", f.node, Text(t, key(t, f.node)), has_key(t, f.node)))
    IN IF is_table(f.v)
       THEN [tree |-> IF has_key(t, f.node) THEN to_map_key(seen, f.node, key(t, f.node))
                      ELSE to_map(seen, f.node),
             stack |-> Append(rest, [f EXCEPT !.i = 1])]
       ELSE IF is_array(f.v)
       THEN [tree |-> IF has_key(t, f.node) THEN to_seq_key(seen, f.node, key(t, f.node))
                      ELSE to_seq(seen, f.node),
             stack |-> Append(rest, [f EXCEPT !.i = 1])]
       ELSE [tree |-> convert_toml_value(f.v, t, f.node), stack |-> rest]

\* one turn of the loop up to the recursive call: the child is appended
\* (and keyed, in a table) and convert_toml_value is called on it
next_member(t, stack) ==
    LET f == stack[Len(stack)]
        rest == SubSeq(stack, 1, Len(stack) - 1)
        c == append_child(t, f.node)
        ka == to_arena(c.tree, f.v.keys[f.i])
    IN [tree |-> IF is_table(f.v) THEN to_keyval(ka.tree, c.id, ka.str, NullSpan) ELSE c.tree,
        stack |-> Append(Append(rest, [f EXCEPT !.i = @ + 1]), Frame(f.v.items[f.i], c.id))]

\* a slip: at the end of the loop the call does not return
leave_frame_stuck(t, stack) == [tree |-> t, stack |-> stack]

\* the loop is over: convert_toml_value returns to its caller
leave_frame(t, stack) ==
    LET f == stack[Len(stack)]
    IN [tree |-> Logged(t, Event("leave", f.node, Text(t, key(t, f.node)), has_key(t, f.node))),
        stack |-> SubSeq(stack, 1, Len(stack) - 1)]

\* the next step of the innermost activation
step_frame(t, stack) ==
    LET f == stack[Len(stack)]
    IN IF f.i = 0 THEN enter_frame(t, stack)
       ELSE IF f.i <= Len(f.v.items) THEN next_member(t, stack)
       ELSE leave_frame(t, stack)

\* no call was made yet
IdleSteps ==
    [mode |-> "none", filename |-> <<>>, exists |-> TRUE, text |-> <<>>, doc |-> NoTable,
     node |-> NONE, status |-> "none", pre |-> Stored(EmptyTree), log |-> <<>>,
     stack |-> <<>>, depth |-> 0, calls |-> 0]

\* an entry point is called: it reports a parse_error and returns, or
\* calls convert_toml_value on the table and the node
BeginCall ==
    \E mode \in Modes, d \in Docs, e \in BOOLEAN, n \in 1..Len(tree.nodes) :
        \E cb \in CallbacksFor(d, e), given \in {Corpus[d]} :
            /\ last.status # "running"
            /\ Target(tree, n)
            /\ mode # "file" => e
            /\ ~(e /\ given.ok) => cb_calls < MaxErrors
            /\ \E p \in {Prologue(mode, <<"f">>, given.text, e, Running(tree), cb)} :
                  /\ tree' = Stored(p.tree)
                  /\ last' = [mode |-> mode, filename |-> <<"f">>, exists |-> e,
                              text |-> given.text, doc |-> p.tbl, node |-> n,
                              status |-> p.status, pre |-> tree, log |-> p.tree.log,
                              stack |-> IF p.status = "running" THEN <<Frame(p.tbl, n)>>
                                        ELSE <<>>,
                              depth |-> IF p.status = "running" THEN 1 ELSE 0,
                              calls |-> IF p.status = "running" THEN 1 ELSE 0]
                  /\ cb_calls' = cb_calls + (IF p.status = "running" THEN 0 ELSE 1)
            /\ UNCHANGED passes

\* the running call takes its next step; with the return of the outermost
\* activation the entry point returns
StepCall ==
    /\ last.status = "running"
    /\ \E r \in {step_frame([nodes |-> tree.nodes, arena |-> tree.arena, log |-> last.log],
                            last.stack)} :
          /\ tree' = Stored(r.tree)
          /\ last' = [last EXCEPT !.log = r.tree.log,
                                  !.stack = r.stack,
                                  !.status = IF r.stack = <<>> THEN "ok" ELSE "running",
                                  !.depth = IF Len(r.stack) > @ THEN Len(r.stack) ELSE @,
                                  !.calls = IF Len(r.stack) > Len(last.stack) THEN @ + 1 ELSE @]
    /\ UNCHANGED <<passes, cb_calls>>

InitSteps == /\ tree = Stored(EmptyTree)
             /\ last = IdleSteps
             /\ passes = << >>
             /\ cb_calls = 0

NextSteps == \/ BeginCall
             \/ StepCall

\* the call is synchronous: once made, it runs
SpecSteps == InitSteps /\ [][NextSteps]_vars /\ WF_vars(StepCall)

(* ---- what the claims are about ---------------------------------------- *)

\* the last call materialized its document
PassDone == last.status = "ok"

\* the nodes the last pass created
Created == (Len(last.pre.nodes) + 1)..Len(tree.nodes)

\* the text the materializer is to store for a scalar of the corpus, as
\* the spec and the tests of test_toml.cpp give it
CanonCases ==
    << <<VInt(0, <<1>>), <<"1">> >>,
       <<VInt(0, <<>>), <<"0">> >>,
       <<VInt(1, <<1, 2>>), <<"-", "1", "2">> >>,
       <<VBool(1), <<"t", "r", "u", "e">> >>,
       <<VBool(0), <<"f", "a", "l", "s", "e">> >>,
       <<VInf(0), <<".", "i", "n", "f">> >>,
       <<VInf(1), <<"-", ".", "i", "n", "f">> >>,
       <<VNaN(0), <<".", "n", "a", "n">> >>,
       <<VNaN(1), <<".", "n", "a", "n">> >>,
       <<VFlt(0, <<3, 1, 4, 1, 5, 9>>, -5), <<"3", ".", "1", "4", "1", "5", "9">> >>,
       <<VFlt(0, <<1>>, 10), <<"1", "e", "+", "1", "0">> >>,
       <<VFlt(1, <<5>>, -1), <<"-", "0", ".", "5">> >>,
       <<VFlt(0, <<1, 2, 3, 4, 5, 6, 7>>, 0), <<"1", ".", "2", "3", "4", "5", "7", "e", "+", "0", "6">> >>,
       <<VFlt(0, <<1, 2, 3, 4, 5, 7, 5>>, -6), <<"1", ".", "2", "3", "4", "5", "7">> >>,
       <<VFlt(0, <<>>, 0), <<"0">> >>,
       <<VDate(1979, 5, 27), <<"1", "9", "7", "9", "-", "0", "5", "-", "2", "7">> >>,
       <<VDate(1, 1, 1), <<"0", "0", "0", "1", "-", "0", "1", "-", "0", "1">> >>,
       <<VTime(7, 32, 0, 500000000), <<"0", "7", ":", "3", "2", ":", "0", "0", ".", "5">> >>,
       <<VTime(23, 59, 59, 0), <<"2", "3", ":", "5", "9", ":", "5", "9">> >>,
       <<VDateTime(1979, 5, 27, 7, 32, 0, 0, 1, -420),
         <<"1", "9", "7", "9", "-", "0", "5", "-", "2", "7", "T",
           "0", "7", ":", "3", "2", ":", "0", "0", "-", "0", "7", ":", "0", "0">> >>,
       <<VDateTime(1979, 5, 27, 7, 32, 0, 0, 1, 0),
         <<"1", "9", "7", "9", "-", "0", "5", "-", "2", "7", "T",
           "0", "7", ":", "3", "2", ":", "0", "0", "Z">> >> >>

IsScalar(v) == ~is_table(v) /\ ~is_array(v)

CanonText(v) ==
    IF is_string(v) THEN v.s
    ELSE CanonCases[CHOOSE i \in 1..Len(CanonCases) : CanonCases[i][1] = v][2]

\* the source values of a hierarchy paired with the nodes of the subtree at
\* id, position by position
RECURSIVE Pairs(_, _, _)
Pairs(v, t, id) ==
    {[v |-> v, id |-> id]}
    \cup UNION {Pairs(v.items[i], t, t.nodes[id].children[i])
                : i \in 1..(IF Len(v.items) < Len(t.nodes[id].children)
                            THEN Len(v.items) ELSE Len(t.nodes[id].children))}

\* the pairs of the last pass
LastPairs == Pairs(last.doc, tree, last.node)

RECURSIVE Iso(_, _, _)
\* the subtree at id has the kind, the members in order and the nesting of v
Iso(v, t, id) ==
    LET n == t.nodes[id]
        kids == n.children
    IN IF is_table(v)
       THEN /\ n.type \ {"KEY"} = {"MAP"}
            /\ Len(kids) = Len(v.items)
            /\ \A i \in 1..Len(kids) :
                  /\ t.nodes[kids[i]].parent = id
                  /\ has_key(t, kids[i])
                  /\ Text(t, key(t, kids[i])) = v.keys[i]
                  /\ Iso(v.items[i], t, kids[i])
       ELSE IF is_array(v)
       THEN /\ n.type \ {"KEY"} = {"SEQ"}
            /\ Len(kids) = Len(v.items)
            /\ \A i \in 1..Len(kids) :
                  /\ t.nodes[kids[i]].parent = id
                  /\ ~has_key(t, kids[i])
                  /\ Iso(v.items[i], t, kids[i])
       ELSE /\ n.type \ {"KEY", "VAL_DQUO"} = {"VAL"}
            /\ kids = <<>>
            /\ Text(t, n.val) = CanonText(v)

\* C1: after a successful parse the subtree at the target is isomorphic to
\* the source hierarchy (a table is a map of keyed children in iteration
\* order, an array a sequence of keyless children in order, a scalar a
\* scalar node with its canonical text), and the target is a map.
C1_StructuralHomomorphism ==
    PassDone => /\ Iso(last.doc, tree, last.node)
                /\ is_map(tree, last.node)
                /\ Cardinality(Created) = NodeCount(last.doc) - 1

\* a table in an array in a table, materialized below the root of a tree
C1_Witness ==
    /\ PassDone
    /\ last.node # root_id(tree)
    /\ \E p \in LastPairs : is_table(p.v) /\ p.id \in Created /\ is_seq(tree, tree.nodes[p.id].parent)

\* the events of the last call on a node
EventsOn(node) == {i \in 1..Len(last.log) : last.log[i].node = node}

\* C2: a node that carries key k when convert_toml_value is called on it
\* carries key k when the call returns and at the end of the pass, whatever
\* the kind of the source value; so does the caller's keyed target.
C2_KeyPreservation ==
    PassDone =>
        /\ has_key(last.pre, last.node) =>
              /\ has_key(tree, last.node)
              /\ Text(tree, key(tree, last.node)) = Text(last.pre, key(last.pre, last.node))
        /\ \A i \in 1..Len(last.log) :
              (last.log[i].op = "visit" /\ last.log[i].flag) =>
                  /\ \E j \in (i + 1)..Len(last.log) :
                        /\ last.log[j].op = "leave"
                        /\ last.log[j].node = last.log[i].node
                        /\ last.log[j].flag
                        /\ last.log[j].txt = last.log[i].txt
                  /\ has_key(tree, last.log[i].node)
                  /\ Text(tree, key(tree, last.log[i].node)) = last.log[i].txt

\* the kinds of the values the last pass materialized into nodes that
\* carried a key when visited
KeyedKinds == {p.v.kind : p \in {q \in LastPairs : has_key(tree, q.id)}}

\* a caller's keyed node took a table whose keyed members are a date, a
\* date-time and a time
C2_Witness ==
    /\ PassDone
    /\ has_key(last.pre, last.node)
    /\ Text(tree, key(tree, last.node)) = <<"k">>
    /\ KeyedKinds = {"table", "date", "date_time", "time"}

\* the last call reported a parse_error
Failed == last.status \in {"thrown", "returned"}

\* what the upstream parser makes of the input of the last call
LastParse ==
    IF last.mode = "file" THEN toml_parse_file(File(last.exists, last.text), last.filename)
    ELSE toml_parse(last.text, last.filename)

\* the calls of the error callback in the last call
ErrorCalls == {i \in 1..Len(last.log) : last.log[i].op = "error_cb"}

\* the steps of convert_toml_value
MaterializerOps ==
    {"visit", "leave", "to_map", "to_seq", "to_keyval", "to_val", "_add_flags", "append_child"}

\* C3: in each of the three modes, when the parser raises a parse_error
\* (malformed text, or a missing file in file mode) the error callback is
\* called exactly once, with the parser's message, as the last step of the
\* call; convert_toml_value is not run and no node of the tree is changed,
\* whether the callback throws or returns.  A call whose input parses does
\* not call the callback.
C3_NoPartialMaterialization ==
    /\ (last.mode # "none" /\ ~LastParse.ok) =>
          /\ Failed
          /\ Cardinality(ErrorCalls) = 1
          /\ \A i \in ErrorCalls : last.log[i].txt = LastParse.msg /\ i = Len(last.log)
          /\ \A i \in 1..Len(last.log) : last.log[i].op \notin MaterializerOps
          /\ tree.nodes = last.pre.nodes
    /\ (last.mode # "none" /\ LastParse.ok) => (PassDone /\ ErrorCalls = {})

\* a file, read for a node of a tree that holds a document, whose last
\* header names a table that holds a member a key-value pair made: the
\* parser refuses it and the callback, which returns, is called once
C3_Witness ==
    /\ last.mode = "file"
    /\ last.exists
    /\ last.text = <<"[", "x", ".", "y", ".", "z", "]", "\n", "[", "x", "]", "\n",
                     "y", ".", "w", "=", "1", "\n", "[", "x", ".", "y", "]">>
    /\ last.status = "returned"
    /\ last.node # root_id(tree)
    /\ Len(tree.nodes) > 1
    /\ Cardinality(ErrorCalls) = 1

\* the key and value spans the last pass attached to the nodes it created:
\* the key of every keyed child, the value of every scalar
AttachedSpans ==
    {tree.nodes[n].key : n \in {m \in Created : has_key(tree, m)}}
    \cup {tree.nodes[n].val : n \in {m \in Created : "VAL" \in tree.nodes[m].type}}

\* a span of bytes of the tree's arena
InArena(sp) == sp.reg = "arena" /\ sp.off + sp.len <= Len(tree.arena)

\* C4 as stated: every key and every scalar text the pass attached refers
\* to storage in the arena, empty strings and empty keys included.
C4_AllTextsInArena ==
    PassDone => \A sp \in AttachedSpans : InArena(sp)

\* C4: every non-empty key and scalar text the pass attached is a span of
\* the tree's arena; an empty key or an empty string is the null span
\* (no pointer, length 0), which refers to no storage at all.  No span
\* refers to memory of the source hierarchy, of the source buffer or of a
\* local buffer, so every stored text outlives the source.
C4_ArenaOwnership ==
    PassDone =>
        \A sp \in AttachedSpans :
            /\ sp.reg \notin {"src", "ext"}
            /\ sp.len > 0 => InArena(sp)
            /\ sp.len = 0 => sp = NullSpan

\* a pass that attached an empty key and an empty string, another key or
\* text being in the arena
C4_Witness ==
    /\ PassDone
    /\ \E n \in Created : /\ has_key(tree, n)
                          /\ tree.nodes[n].key = NullSpan
                          /\ "VAL" \in tree.nodes[n].type
                          /\ tree.nodes[n].val = NullSpan
    /\ last.node # root_id(tree)
    /\ \E m \in 1..Len(tree.nodes) : InArena(tree.nodes[m].val) /\ tree.nodes[m].val.len > 0

\* the floats of the last pass with their nodes
FloatPairs == {p \in LastPairs : is_floating_point(p.v)}

\* every class of double: the zeros and a finite value, the infinities and
\* the NaNs, of both signs
DoubleClasses ==
    {Value("floating_point", <<>>, <<e, neg, f, 0>>, <<>>, <<>>)
     : e \in {0, 1}, neg \in {0, 1}, f \in {<<>>, <<1>>}}

\* C5: the value text of a float is decided by the infinity test first and
\* by the NaN test only when the infinity test failed.  A value the
\* infinity test accepts gives ".inf" when positive and "-.inf" when
\* negative; a value it refuses and the NaN test accepts gives ".nan",
\* whatever its sign; a value both refuse is finite and gives the text of
\* the stream conversion (as the spec and the tests list it).  No double
\* passes both tests, so the three cases are mutually exclusive and the
\* NaN of either sign gives ".nan".
C5_FloatCanonicalization ==
    /\ \A d \in DoubleClasses :
           /\ ~(isinf(d) /\ isnan(d))
           /\ (~isinf(d) /\ ~isnan(d)) = (d.n[1] = 0)
    /\ PassDone =>
           \A p \in FloatPairs :
               LET txt == Text(tree, tree.nodes[p.id].val)
               IN /\ p.v \in DoubleClasses \/ p.v.n[1] = 0
                  /\ isinf(p.v) =>
                         txt = IF p.v.n[2] = 0 THEN <<".", "i", "n", "f">>
                               ELSE <<"-", ".", "i", "n", "f">>
                  /\ (~isinf(p.v) /\ isnan(p.v)) => txt = <<".", "n", "a", "n">>
                  /\ (~isinf(p.v) /\ ~isnan(p.v)) =>
                         (txt = StreamText(p.v) /\ txt = CanonText(p.v))
                  /\ isnan(p.v) => (~isinf(p.v) /\ txt = <<".", "n", "a", "n">>)

\* both infinities and both NaNs in one array
C5_Witness ==
    /\ PassDone
    /\ {p.v : p \in FloatPairs} = {VInf(0), VInf(1), VNaN(0), VNaN(1)}
    /\ \A p \in FloatPairs : "VAL" \in tree.nodes[p.id].type

\* the strings of the last pass with their nodes
StringPairs == {p \in LastPairs : is_string(p.v)}

\* the kind assignments of the last call on a node
KindOps == {"to_map", "to_seq", "to_keyval", "to_val"}

KindAssignments(node) == {i \in EventsOn(node) : last.log[i].op \in KindOps}

\* C6: the value text of a string is the source string unchanged, and the
\* node carries VAL_DQUO at the end of the pass, with a key (to_keyval)
\* and without one (to_val): _add_flags acts on the node after its last
\* kind assignment.
C6_StringScalars ==
    PassDone =>
        \A p \in StringPairs :
            /\ Text(tree, tree.nodes[p.id].val) = p.v.s
            /\ tree.nodes[p.id].type \ {"KEY"} = {"VAL", "VAL_DQUO"}
            /\ \E j \in EventsOn(p.id) :
                  /\ last.log[j].op = "_add_flags"
                  /\ KindAssignments(p.id) # {}
                  /\ \A i \in KindAssignments(p.id) : i < j
            /\ \E i \in KindAssignments(p.id) :
                  /\ \A k \in KindAssignments(p.id) : k <= i
                  /\ last.log[i].op = (IF has_key(tree, p.id) THEN "to_keyval" ELSE "to_val")

\* a string under a key and a string in an array, in one pass
C6_Witness ==
    /\ PassDone
    /\ \E p \in StringPairs : has_key(tree, p.id) /\ p.v.s = <<"v">>
    /\ \E p \in StringPairs : ~has_key(tree, p.id) /\ p.v.s = <<"w">>
    /\ \A p \in StringPairs : "VAL_DQUO" \in tree.nodes[p.id].type

\* what a caller sees of the nodes of a tree: for every node its type
\* flags, key text, value text, parent and children in order
NodeView(t) ==
    [i \in 1..Len(t.nodes) |->
        [type |-> t.nodes[i].type,
         key |-> Text(t, t.nodes[i].key),
         val |-> Text(t, t.nodes[i].val),
         parent |-> t.nodes[i].parent,
         children |-> t.nodes[i].children]]

\* parse_toml_in_place on the text, the tree and the node of the last call
InPlaceTwin ==
    parse_toml_in_place(last.filename, ExtSpan(last.text), Running(last.pre), last.node, "throws")

\* the bytes of an arena from offset off on
ArenaFrom(t, off) == SubSeq(t.arena, off + 1, Len(t.arena))

\* C7: a successful parse_toml_in_arena, or parse_toml_file on a file of
\* that content, leaves the nodes parse_toml_in_place leaves for the same
\* text, tree and node: same type flags, key texts, value texts and
\* children in order.  The arena of the file mode is that of the in-place
\* mode; the arena of the arena-copy mode holds the source text before the
\* texts of the pass.
C7_ModeEquivalence ==
    (PassDone /\ last.mode \in {"in_arena", "file"}) =>
        \E r \in {InPlaceTwin} :
            /\ r.status = "ok"
            /\ NodeView(r.tree) = NodeView(tree)
            /\ last.mode = "file" => tree.arena = r.tree.arena
            /\ last.mode = "in_arena" =>
                  tree.arena = last.pre.arena \o last.text
                               \o ArenaFrom(r.tree, Len(last.pre.arena))

\* parse_toml_in_arena of a document with members into a node below the
\* root, the arena holding texts of an earlier pass
C7_Witness ==
    /\ PassDone
    /\ last.mode = "in_arena"
    /\ last.node # root_id(tree)
    /\ Created # {}
    /\ last.pre.arena # <<>>
    /\ NodeView(InPlaceTwin.tree) = NodeView(tree)

\* C8: parse_toml_in_arena first allocates Len(text) bytes at the end of
\* the arena and copies the text there, then hands that span of the arena
\* (not the caller's buffer) to the parser, which reads the source text
\* from it; every step on a node comes after both.
C8_ArenaCopyOrdering ==
    last.mode = "in_arena" =>
        LET copy == ArenaSpan(Len(last.pre.arena), Len(last.text))
        IN /\ Len(last.log) >= 2
           /\ last.log[1].op = "alloc_arena"
           /\ last.log[1].sp = copy
           /\ last.log[2].op = "parse"
           /\ last.log[2].sp = copy
           /\ last.log[2].txt = last.text
           /\ \A i \in 1..Len(last.log) :
                 (last.log[i].op \in MaterializerOps \/ last.log[i].op = "error_cb") => i > 2
           /\ last.status # "thrown" =>
                 /\ Len(tree.arena) >= Len(last.pre.arena) + Len(last.text)
                 /\ Text(tree, copy) = last.text

\* parse_toml_in_arena of a text with members into a tree whose arena is
\* not empty
C8_Witness ==
    /\ PassDone
    /\ last.mode = "in_arena"
    /\ last.pre.arena # <<>>
    /\ last.text # <<>>
    /\ Created # {}
    /\ last.log[2].sp.reg = "arena"
    /\ last.log[2].sp.off > 0

\* a subtree without the key of its top node, which is the caller's
Unkeyed(shape) == [shape EXCEPT !.key = <<>>, !.type = @ \ {"KEY"}]

\* the subtree convert_toml_value makes of document d at the root of a
\* new tree
Reference(d) ==
    Shape(convert_toml_value(Corpus[d].tbl, Running(EmptyTree), root_id(EmptyTree)),
          root_id(EmptyTree))

\* C9: the subtrees two passes left for the same document at two nodes of
\* the tree are identical (type flags, key texts, value texts, child counts
\* and order at every position, the key of the top node apart), and each
\* is the subtree a pass at the root of a new tree makes, whatever the
\* arena and the nodes held before.
C9_Determinism ==
    /\ \A n1 \in DOMAIN passes : \A n2 \in DOMAIN passes :
          passes[n1].doc = passes[n2].doc =>
              Unkeyed(passes[n1].shape) = Unkeyed(passes[n2].shape)
    /\ \A n \in DOMAIN passes :
          Unkeyed(passes[n].shape) = Unkeyed(Reference(passes[n].doc))

\* one document with a member materialized at the root and then at a keyed
\* child of the root
C9_Witness ==
    \E n1 \in DOMAIN passes : \E n2 \in DOMAIN passes :
        /\ n1 # n2
        /\ passes[n1].doc = passes[n2].doc
        /\ passes[n1].shape.kids # <<>>
        /\ passes[n2].keyed /\ ~passes[n1].keyed
        /\ PassDone /\ last.node = n2 /\ last.pre.arena # <<>>

\* the nodes convert_toml_value was called on in the last call
Visited == {last.log[i].node : i \in {j \in 1..Len(last.log) : last.log[j].op = "visit"}}

VisitAt(node) == CHOOSE i \in EventsOn(node) : last.log[i].op = "visit"

LeaveAt(node) == CHOOSE i \in EventsOn(node) : last.log[i].op = "leave"

\* the node was created by the last pass as a member of a table
TableChild(node) == node \in Created /\ is_map(tree, tree.nodes[node].parent)

\* C10 as stated: every visited node has exactly one kind assignment
\* (to_map, to_seq, to_keyval, to_val) in the pass.
C10_OneAssignmentPerPass ==
    PassDone => \A n \in Visited : Cardinality(KindAssignments(n)) = 1

\* C10: within its visit (between the call of convert_toml_value on it and
\* the return) every node has its kind assigned exactly once.  A child
\* created under a table has one more assignment before its visit, the
\* to_keyval that gives it its key and an empty value: two in the pass.
\* The target and the children of arrays have none outside the visit: one
\* in the pass.
C10_SingleKindAssignment ==
    PassDone =>
        \A n \in Visited :
            /\ Cardinality({i \in KindAssignments(n) : VisitAt(n) < i /\ i < LeaveAt(n)}) = 1
            /\ \A i \in KindAssignments(n) : i < LeaveAt(n)
            /\ TableChild(n) =>
                  /\ Cardinality({i \in KindAssignments(n) : i < VisitAt(n)}) = 1
                  /\ \A i \in KindAssignments(n) : i < VisitAt(n) => last.log[i].op = "to_keyval"
                  /\ Cardinality(KindAssignments(n)) = 2
            /\ ~TableChild(n) => Cardinality(KindAssignments(n)) = 1

\* a pass with a child of a table that is an array and children of that
\* array
C10_Witness ==
    /\ PassDone
    /\ last.node \in Visited
    /\ \E n \in Visited : TableChild(n) /\ is_seq(tree, n) /\ Cardinality(KindAssignments(n)) = 2
    /\ \E n \in Visited : /\ n \in Created
                          /\ is_seq(tree, tree.nodes[n].parent)
                          /\ Cardinality(KindAssignments(n)) = 1

\* the visits of the last call, in order
Visits == {i \in 1..Len(last.log) : last.log[i].op = "visit"}

\* C11: in a pass the source values and the destination nodes visited are
\* paired one to one: as many visits as source values, no node visited
\* twice, the visited nodes being the target and the nodes the pass
\* created, each the node of exactly one source value.  No node is
\* removed: the tree holds NodeCount - 1 more nodes than before and every
\* earlier node is still there, under its parent.
C11_OneVisitNoDeletion ==
    /\ PassDone =>
          /\ Cardinality(Visits) = NodeCount(last.doc)
          /\ \A i \in Visits : \A j \in Visits : last.log[i].node = last.log[j].node => i = j
          /\ Visited = {last.node} \cup Created
          /\ {p.id : p \in LastPairs} = Visited
          /\ Cardinality(LastPairs) = NodeCount(last.doc)
          /\ Len(tree.nodes) = Len(last.pre.nodes) + NodeCount(last.doc) - 1
          /\ \A n \in 1..Len(last.pre.nodes) : tree.nodes[n].parent = last.pre.nodes[n].parent
    /\ Len(tree.nodes) >= Len(last.pre.nodes)

\* a pass of a table with three members, one of them an array, into a
\* node below the root
C11_Witness ==
    /\ PassDone
    /\ last.node # root_id(tree)
    /\ Len(last.doc.items) = 3
    /\ \E p \in LastPairs : is_array(p.v) /\ p.v.items # <<>>
    /\ Cardinality(Visits) = NodeCount(last.doc)
    /\ Cardinality(Visits) >= 5

\* the nodes of the subtree at a node
RECURSIVE Below(_, _)
Below(t, id) ==
    {id} \cup UNION {Below(t, t.nodes[id].children[i]) : i \in 1..Len(t.nodes[id].children)}

\* C14: a pass into node n leaves every other node that existed before as
\* it was (type flags, key, value, parent, children in order); n keeps
\* its key, its parent and, its parent being unchanged, its place among
\* its siblings; the new nodes are all below n; the bytes the arena held
\* before are unchanged, the arena only grows.  A call that reports an
\* error leaves all nodes as they were.
C14_Frame ==
    /\ PassDone =>
          /\ \A m \in 1..Len(last.pre.nodes) :
                m # last.node =>
                    /\ tree.nodes[m] = last.pre.nodes[m]
                    /\ Text(tree, tree.nodes[m].key) = Text(last.pre, last.pre.nodes[m].key)
                    /\ Text(tree, tree.nodes[m].val) = Text(last.pre, last.pre.nodes[m].val)
          /\ tree.nodes[last.node].parent = last.pre.nodes[last.node].parent
          /\ tree.nodes[last.node].key = last.pre.nodes[last.node].key
          /\ Created \subseteq Below(tree, last.node)
          /\ Below(tree, last.node) = {last.node} \cup Created
    /\ Failed => tree.nodes = last.pre.nodes
    /\ Len(tree.arena) >= Len(last.pre.arena)
    /\ SubSeq(tree.arena, 1, Len(last.pre.arena)) = last.pre.arena

\* a pass into a keyed child of a root that holds a member with a key and
\* a value in the arena
C14_Witness ==
    /\ PassDone
    /\ last.node # root_id(tree)
    /\ has_key(last.pre, last.node)
    /\ Created # {}
    /\ Len(tree.arena) > Len(last.pre.arena)
    /\ \E m \in 1..Len(last.pre.nodes) :
          /\ m # last.node
          /\ InArena(tree.nodes[m].key) /\ tree.nodes[m].key.len > 0
          /\ InArena(tree.nodes[m].val) /\ tree.nodes[m].val.len > 0

\* the kinds convert_toml_value has a branch for
KnownKinds ==
    {"table", "array", "string", "integer", "floating_point", "boolean",
     "date", "time", "date_time"}

\* the values of no known kind in the last pass, with their nodes
OtherPairs == {p \in LastPairs : p.v.kind \notin KnownKinds}

\* the key the source table gives the value materialized into a node
SourceKey(node) ==
    LET par == tree.nodes[node].parent
        pp == CHOOSE q \in LastPairs : q.id = par
        i == CHOOSE j \in 1..Len(tree.nodes[par].children) : tree.nodes[par].children[j] = node
    IN pp.v.keys[i]

\* C12: convert_toml_value on a value of none of the nine kinds does
\* nothing between entry and return: no kind assignment, no flag, no child,
\* no arena allocation, no call of the error callback.  Called on the
\* target it leaves nodes and arena as they were; a child created for such
\* a value under a table is a keyed scalar with the source key and an
\* empty value, one created under an array has no type, key or value.
C12_UnrecognizedKind ==
    last.mode = "materialize" =>
        /\ ErrorCalls = {}
        /\ cb_calls = 0
        /\ \A p \in OtherPairs :
              /\ LeaveAt(p.id) = VisitAt(p.id) + 1
              /\ tree.nodes[p.id].children = <<>>
              /\ p.id = last.node => tree = last.pre
              /\ (p.id # last.node /\ TableChild(p.id)) =>
                    /\ tree.nodes[p.id].type = {"KEY", "VAL"}
                    /\ Text(tree, tree.nodes[p.id].key) = SourceKey(p.id)
                    /\ tree.nodes[p.id].val = NullSpan
              /\ (p.id # last.node /\ ~TableChild(p.id)) =>
                    /\ tree.nodes[p.id].type = {}
                    /\ tree.nodes[p.id].key = NullSpan
                    /\ tree.nodes[p.id].val = NullSpan

\* a table materialized into a keyed node of the caller, with a value of
\* no known kind as a member and another in an array
C12_Witness ==
    /\ last.mode = "materialize"
    /\ last.node # root_id(tree)
    /\ has_key(last.pre, last.node)
    /\ \E p \in OtherPairs : TableChild(p.id) /\ SourceKey(p.id) = <<"u">>
    /\ \E p \in OtherPairs : p.id \in Created /\ is_seq(tree, tree.nodes[p.id].parent)

\* the nesting depth of a source hierarchy
RECURSIVE Depth(_)
RECURSIVE DepthAll(_, _)
DepthAll(items, i) ==
    IF i > Len(items) THEN 0
    ELSE LET a == Depth(items[i])
             b == DepthAll(items, i + 1)
         IN IF a > b THEN a ELSE b

Depth(v) == 1 + DepthAll(v.items, 1)

\* what the entry point of the call followed step by step does in one go
WholeCall ==
    IF last.mode = "in_place"
    THEN parse_toml_in_place(last.filename, ExtSpan(last.text), Running(last.pre), last.node,
                             "throws")
    ELSE IF last.mode = "in_arena"
    THEN parse_toml_in_arena(last.filename, ExtSpan(last.text), Running(last.pre), last.node,
                             "throws")
    ELSE parse_toml_file(last.filename, File(last.exists, last.text), Running(last.pre),
                         last.node, "throws")

\* a running call has made no more calls of convert_toml_value than the
\* source has values and is no deeper than the source; a call that is not
\* running has no activation left; a completed call made one call per
\* source value, went as deep as the source is nested, and left the tree
\* and the steps of the entry point taken in one go
CallProgress ==
    /\ last.status \in {"none", "running", "ok", "thrown", "returned"}
    /\ last.status = "running" =>
          /\ last.stack # <<>>
          /\ Len(last.stack) <= Depth(last.doc)
          /\ last.calls <= NodeCount(last.doc)
    /\ last.status # "running" => last.stack = <<>>
    /\ last.status \in {"thrown", "returned"} => (last.calls = 0 /\ tree.nodes = last.pre.nodes)
    /\ last.status = "ok" =>
          /\ last.calls = NodeCount(last.doc)
          /\ last.depth = Depth(last.doc)
          /\ \E r \in {WholeCall} :
                /\ r.status = "ok"
                /\ Stored(r.tree) = tree
                /\ r.tree.log = last.log

\* C13: a call of an entry point reports the parse_error at once or runs
\* convert_toml_value, which completes: one call per source value, as deep
\* as the source is nested, nothing left pending.
C13_Termination ==
    /\ []CallProgress
    /\ (last.status = "running") ~> (last.status = "ok")

\* a completed call on a table in an array in a table: four calls, depth
\* four
C13_Witness ==
    /\ last.status = "ok"
    /\ last.stack = <<>>
    /\ last.calls = 4
    /\ last.depth = 4
    /\ Depth(last.doc) = 4

====
